---- MODULE Spec2Model ----
(***************************************************************************)
(* A model of xarray-schema: the component schemas, the DataArray and      *)
(* Dataset schemas, their validate methods and their json / from_json      *)
(* conversions.  Every method is a pure function of the schema and of its  *)
(* argument, so a behaviour is one call: Init draws the receiver and the   *)
(* arguments, and one action per method applies it and records what the    *)
(* call did (returned, or raised which exception with which message).      *)
(* The validate methods of the DataArray and Dataset schemas are also      *)
(* taken statement by statement, with the calls they make written to       *)
(* calls, and a schema is validated several times in a row, with the       *)
(* finished calls written to hist.                                         *)
(***************************************************************************)
EXTENDS Integers, Sequences, FiniteSets, TLC

VARIABLES pc, op, self, arg, ret, step, calls, hist

vars == <<pc, op, self, arg, ret, step, calls, hist>>

(***************************************************************************)
(* Bounds of the model.                                                    *)
(***************************************************************************)
\* longest block sequence of one axis
MaxBlocks == 3
\* largest block size and largest axis extent
MaxBlock == 3

(***************************************************************************)
(* Python values.  Each kind of value has its own payload field, so that   *)
(* two values of different kinds are never compared field by field.        *)
(***************************************************************************)
None == [t |-> "none"]
PyBool(b) == [t |-> "bool", b |-> b]
PyInt(i) == [t |-> "int", i |-> i]
PyStr(s) == [t |-> "str", s |-> s]
PyList(items) == [t |-> "list", items |-> items]
PyTuple(items) == [t |-> "tuple", items |-> items]
\* a dict keeps insertion order: a sequence of [k |-> key, v |-> value]
PyDict(entries) == [t |-> "dict", entries |-> entries]
\* DataArray.chunks of a chunked array: one block sequence per axis
Chunks(axes) == [t |-> "chunks", axes |-> axes]

\* the outcome of a call
Return == [exc |-> "none"]
Raise(e, m) == [exc |-> e, msg |-> m]
\* the outcome of a call that returned the value v
Val(v) == [exc |-> "none", val |-> v]
\* a call and the statements after it: an exception of the call propagates
Then(r, rest) == IF r.exc # "none" THEN r ELSE rest
\* one step of a dict comprehension {k: f(v) for k, v in d.items()}: a is the
\* outcome of f(v) for the key k, rest that of the items after it
DictItem(k, a, rest) ==
    IF a.exc # "none" THEN a
    ELSE IF rest.exc # "none" THEN rest
    ELSE Val(<<[k |-> k, v |-> a.val]>> \o rest.val)
\* the dict of the items a comprehension built
AsDict(built) == IF built.exc # "none" THEN built ELSE Val(PyDict(built.val))

\* a class object, such as str or numpy.ndarray
PyType(name) == [t |-> "type", name |-> name]

\* type(v).__name__: the kind of a plain value, the class of a schema object
TypeOf(v) == IF "cls" \in DOMAIN v THEN v.cls ELSE v.t

Min(a, b) == IF a < b THEN a ELSE b

SeqsUpTo(S, n) == UNION {[1..k -> S] : k \in 0..n}

Keys(d) == {d.entries[i].k : i \in 1..Len(d.entries)}

\* kwargs.get(key): the value of a keyword argument, None when it is not given
KwGet(d, key) ==
    IF \E i \in 1..Len(d.entries) : d.entries[i].k = key
    THEN d.entries[CHOOSE i \in 1..Len(d.entries) : d.entries[i].k = key].v
    ELSE None

\* bool(v) of None, of a bool, of a dict, of a list and of any other object
Truthy(v) ==
    IF v = None THEN FALSE
    ELSE IF TypeOf(v) = "bool" THEN v.b
    ELSE IF TypeOf(v) = "dict" THEN Len(v.entries) > 0
    ELSE IF TypeOf(v) \in {"list", "tuple"} THEN Len(v.items) > 0
    ELSE TRUE

\* d[key] of a dict that has the key
Get(d, key) ==
    LET i == CHOOSE j \in 1..Len(d.entries) : d.entries[j].k = key
    IN  d.entries[i].v

(***************************************************************************)
(* ChunksSchema                                                            *)
(***************************************************************************)
ChunksSchema(chunks) == [cls |-> "ChunksSchema", chunks |-> chunks]

\* bool(chunks) for the actual chunks: None and the empty tuple are falsy
ChunksTruthy(chunks) ==
    /\ chunks.t = "chunks"
    /\ Len(chunks.axes) > 0

\* Has(dims, vals, key): key in dict(zip(dims, vals))
ZipHas(dims, vals, key) ==
    \E i \in 1..Min(Len(dims), Len(vals)) : dims[i] = key

\* dict(zip(dims, vals))[key]: zip stops at the shorter sequence, and a later
\* duplicate of a name replaces an earlier one
ZipGet(dims, vals, key) ==
    LET n == Min(Len(dims), Len(vals))
        i == CHOOSE j \in 1..n :
                 /\ dims[j] = key
                 /\ \A l \in (j + 1)..n : dims[l] # key
    IN  vals[i]

ChunkMismatch(key, ac, ec) ==
    Raise("SchemaError",
          [text |-> "chunks did not match", key |-> key, ac |-> ac, ec |-> ec])

\* a chunk rule that compares every block, the last one too, with ec
IntRuleFails_Strict(ac, ec) ==
    \E i \in 1..Len(ac) : ac[i] # ec

\* a chunk rule that looks at the last block only
IntRuleFails_TailOnly(ac, ec) ==
    ac[Len(ac)] > ec

\* any([a != ec for a in ac[:-1]]) or ac[-1] > ec, with ac not empty
IntRuleFails(ac, ec) ==
    \/ \E i \in 1..(Len(ac) - 1) : ac[i] # ec
    \/ ac[Len(ac)] > ec

\* a shorthand that stands for the full extent only when it is -1
ExpectedSize_MinusOneOnly(ec, dims, shape, key) ==
    IF ec = -1 THEN ZipGet(dims, shape, key) ELSE ec

\* if ec < 0: ec = dim_sizes[key]
ExpectedSize(ec, dims, shape, key) ==
    IF ec < 0 THEN ZipGet(dims, shape, key) ELSE ec

\* a comparison of the tuple ac with ec as it was given, list or tuple
SeqMismatch_NoConversion(ac, ec) ==
    PyTuple(ac) # ec

\* tuple(ac) != tuple(ec): tuple() of a list or of a tuple is the tuple of its
\* items, and tuples are equal when their items are
SeqMismatch(ac, ec) ==
    PyTuple(ac) # PyTuple(ec.items)

\* the body of the loop over self.chunks.items() for one (key, ec)
ChunksSchema_validate_item(key, ec, chunks, dims, shape) ==
    IF ec.t = "int"
    THEN IF ec.i < 0 /\ ~ZipHas(dims, shape, key)
         THEN Raise("KeyError", [text |-> "dim_sizes", key |-> key])
         ELSE IF ~ZipHas(dims, chunks.axes, key)
         THEN Raise("KeyError", [text |-> "dim_chunks", key |-> key])
         ELSE LET n  == ExpectedSize(ec.i, dims, shape, key)
                  ac == ZipGet(dims, chunks.axes, key)
              IN  IF Len(ac) = 0
                  THEN Raise("IndexError", [text |-> "tuple index out of range"])
                  ELSE IF IntRuleFails(ac, n)
                  THEN ChunkMismatch(key, ac, PyInt(n))
                  ELSE Return
    ELSE IF ~ZipHas(dims, chunks.axes, key)
         THEN Raise("KeyError", [text |-> "dim_chunks", key |-> key])
         ELSE LET ac == ZipGet(dims, chunks.axes, key)
              IN  IF ec.t # "none" /\ SeqMismatch(ac, ec)
                  THEN ChunkMismatch(key, ac, ec)
                  ELSE Return

RECURSIVE ChunksSchema_validate_items(_, _, _, _, _)
ChunksSchema_validate_items(entries, i, chunks, dims, shape) ==
    IF i > Len(entries)
    THEN Return
    ELSE LET r == ChunksSchema_validate_item(entries[i].k, entries[i].v,
                                             chunks, dims, shape)
         IN  IF r.exc # "none"
             THEN r
             ELSE ChunksSchema_validate_items(entries, i + 1, chunks, dims, shape)

ChunksSchema_validate(schema, chunks, dims, shape) ==
    IF schema.chunks.t = "bool"
    THEN IF schema.chunks.b /\ ~ChunksTruthy(chunks)
         THEN Raise("SchemaError", [text |-> "expected array to be chunked but it is not"])
         ELSE IF ~schema.chunks.b /\ ChunksTruthy(chunks)
         THEN Raise("SchemaError", [text |-> "expected unchunked array but it is chunked"])
         ELSE Return
    ELSE IF schema.chunks.t = "dict"
    THEN IF chunks.t = "none"
         THEN Raise("SchemaError", [text |-> "expected array to be chunked but it is not"])
         ELSE ChunksSchema_validate_items(schema.chunks.entries, 1, chunks, dims, shape)
    ELSE Raise("ValueError", [text |-> "got unknown chunks type", type |-> schema.chunks.t])

\* ChunksSchema.from_json
ChunksSchema_from_json(obj) == Val(ChunksSchema(obj))

\* isinstance(val, Iterable) for the values of a chunks dict, which are
\* ints, lists, tuples or None
IsIterable(v) == v.t \in {"list", "tuple"}

RECURSIVE ChunksSchema_json_entries(_, _)
ChunksSchema_json_entries(entries, i) ==
    IF i > Len(entries)
    THEN <<>>
    ELSE LET v == entries[i].v
             w == IF IsIterable(v) THEN PyList(v.items) ELSE v
         IN  <<[k |-> entries[i].k, v |-> w]>>
                 \o ChunksSchema_json_entries(entries, i + 1)

\* ChunksSchema.json
ChunksSchema_json(schema) ==
    IF schema.chunks.t = "bool"
    THEN Val(schema.chunks)
    ELSE IF schema.chunks.t = "dict"
    THEN Val(PyDict(ChunksSchema_json_entries(schema.chunks.entries, 1)))
    ELSE Raise("AttributeError", [text |-> "no attribute items", type |-> schema.chunks.t])

(***************************************************************************)
(* DTypeSchema                                                             *)
(***************************************************************************)
\* np.floating, np.integer, np.signedinteger, np.unsignedinteger, np.generic
KindNames == {"floating", "integer", "signedinteger", "unsignedinteger", "generic"}

NpKind(name) == [t |-> "kind", name |-> name]

\* a numpy dtype object, known by its dtype.str
NpDtype(code) == [t |-> "dtype", code |-> code]

\* the spellings numpy understands, and the dtype.str of the dtype they name
DtypeSpellings ==
    [s \in {"i4", "<i4", "int32", "i8", "<i8", "int64", "f4", "<f4", "float32", "u1", "|u1", "uint8"} |->
        CASE s \in {"i4", "<i4", "int32"} -> "<i4"
          [] s \in {"i8", "<i8", "int64"} -> "<i8"
          [] s \in {"f4", "<f4", "float32"} -> "<f4"
          [] OTHER -> "|u1"]

\* np.dtype(x) for a dtype, a numpy scalar class or a string
np_dtype(x) ==
    IF x.t = "dtype"
    THEN Val(x)
    ELSE IF x.t = "type" /\ x.name \in {"numpy.int32", "numpy.int64", "numpy.float32"}
    THEN Val(NpDtype(CASE x.name = "numpy.int32" -> "<i4"
                       [] x.name = "numpy.int64" -> "<i8"
                       [] OTHER -> "<f4"))
    ELSE IF x.t = "str" /\ x.s \in DOMAIN DtypeSpellings
    THEN Val(NpDtype(DtypeSpellings[x.s]))
    ELSE Raise("TypeError", [text |-> "data type not understood", type |-> x.t])

\* DTypeSchema.__init__
DTypeSchema(dtype) ==
    IF dtype.t = "kind"
    THEN Val([cls |-> "DTypeSchema", dtype |-> dtype])
    ELSE LET d == np_dtype(dtype)
         IN  IF d.exc # "none" THEN d
             ELSE Val([cls |-> "DTypeSchema", dtype |-> d.val])

\* DTypeSchema.from_json
DTypeSchema_from_json(obj) ==
    IF obj.t = "str" /\ obj.s \in KindNames
    THEN DTypeSchema(NpKind(obj.s))
    ELSE DTypeSchema(obj)

\* DTypeSchema.json
DTypeSchema_json(schema) ==
    IF schema.dtype.t = "dtype"
    THEN Val(PyStr(schema.dtype.code))
    ELSE Val(PyStr(schema.dtype.name))

\* the numpy scalar class hierarchy above a dtype or a kind
NpSupers(d) ==
    IF d.t = "dtype"
    THEN {d} \cup
         CASE d.code \in {"<i4", "<i8"} ->
                  {NpKind("signedinteger"), NpKind("integer"), NpKind("generic")}
           [] d.code = "|u1" ->
                  {NpKind("unsignedinteger"), NpKind("integer"), NpKind("generic")}
           [] OTHER -> {NpKind("floating"), NpKind("generic")}
    ELSE {d} \cup
         CASE d.name \in {"signedinteger", "unsignedinteger"} ->
                  {NpKind("integer"), NpKind("generic")}
           [] d.name = "generic" -> {}
           [] OTHER -> {NpKind("generic")}

\* np.issubdtype(a, b)
np_issubdtype(a, b) == b \in NpSupers(a)

\* DTypeSchema.validate
DTypeSchema_validate(schema, dtype) ==
    IF ~np_issubdtype(dtype, schema.dtype)
    THEN Raise("SchemaError", [text |-> "dtype", actual |-> dtype, expected |-> schema.dtype])
    ELSE Return

(***************************************************************************)
(* DimsSchema, ShapeSchema, NameSchema                                     *)
(***************************************************************************)
\* DimsSchema.__init__
DimsSchema(dims) == [cls |-> "DimsSchema", dims |-> dims]

\* DimsSchema.from_json
DimsSchema_from_json(obj) == Val(DimsSchema(obj))

\* DimsSchema.json
DimsSchema_json(schema) == Val(PyList(schema.dims.items))

\* the first index at which expected is not None and differs from actual
FirstMismatch(actual, expected) ==
    LET n   == Min(Len(actual), Len(expected))
        bad == {i \in 1..n : expected[i] # None /\ actual[i] # expected[i]}
    IN  IF bad = {} THEN 0 ELSE CHOOSE i \in bad : \A j \in bad : i <= j

\* DimsSchema.validate; actual is the tuple it is given, of names or None
DimsSchema_validate_values(schema, actual) ==
    IF Len(schema.dims.items) # Len(actual)
    THEN Raise("SchemaError", [text |-> "length of dims does not match",
                               actual |-> Len(actual), expected |-> Len(schema.dims.items)])
    ELSE IF FirstMismatch(actual, schema.dims.items) # 0
    THEN Raise("SchemaError",
               [text |-> "dim mismatch in axis",
                axis |-> FirstMismatch(actual, schema.dims.items) - 1,
                actual |-> actual[FirstMismatch(actual, schema.dims.items)],
                expected |-> schema.dims.items[FirstMismatch(actual, schema.dims.items)]])
    ELSE Return

\* DimsSchema.validate; dims is the tuple of the array's dimension names
DimsSchema_validate(schema, dims) ==
    DimsSchema_validate_values(schema, [i \in 1..Len(dims) |-> PyStr(dims[i])])

\* ShapeSchema.__init__
ShapeSchema(shape) == [cls |-> "ShapeSchema", shape |-> shape]

\* ShapeSchema.from_json
ShapeSchema_from_json(obj) == Val(ShapeSchema(obj))

\* ShapeSchema.json
ShapeSchema_json(schema) == Val(PyList(schema.shape.items))

\* ShapeSchema.validate; actual is the tuple it is given, of sizes or None
ShapeSchema_validate_values(schema, actual) ==
    IF Len(schema.shape.items) # Len(actual)
    THEN Raise("SchemaError", [text |-> "number of dimensions in shape",
                               actual |-> Len(actual), expected |-> Len(schema.shape.items)])
    ELSE IF FirstMismatch(actual, schema.shape.items) # 0
    THEN Raise("SchemaError",
               [text |-> "shape mismatch in axis",
                axis |-> FirstMismatch(actual, schema.shape.items) - 1,
                actual |-> actual[FirstMismatch(actual, schema.shape.items)],
                expected |-> schema.shape.items[FirstMismatch(actual, schema.shape.items)]])
    ELSE Return

\* ShapeSchema.validate; shape is the tuple of the array's axis sizes
ShapeSchema_validate(schema, shape) ==
    ShapeSchema_validate_values(schema, [i \in 1..Len(shape) |-> PyInt(shape[i])])

\* NameSchema.__init__
NameSchema(name) == [cls |-> "NameSchema", name |-> name]

\* NameSchema.from_json
NameSchema_from_json(obj) == Val(NameSchema(obj))

\* NameSchema.json
NameSchema_json(schema) == Val(schema.name)

\* NameSchema.validate
NameSchema_validate(schema, name) ==
    IF schema.name # name
    THEN Raise("SchemaError", [text |-> "name", actual |-> name, expected |-> schema.name])
    ELSE Return

(***************************************************************************)
(* ArrayTypeSchema                                                         *)
(***************************************************************************)
\* str(cls) of the array classes
ClassRepr ==
    [n \in {"numpy.ndarray", "dask.array.core.Array", "sparse.COO"} |->
        CASE n = "numpy.ndarray" -> "<class 'numpy.ndarray'>"
          [] n = "dask.array.core.Array" -> "<class 'dask.array.core.Array'>"
          [] OTHER -> "<class 'sparse.COO'>"]

\* ArrayTypeSchema.__init__
ArrayTypeSchema(array_type) == [cls |-> "ArrayTypeSchema", array_type |-> array_type]

\* ArrayTypeSchema.from_json
ArrayTypeSchema_from_json_AsSchemaError(obj) ==
    IF obj = PyStr("<class 'dask.array.core.Array'>")
    THEN Val(ArrayTypeSchema(PyType("dask.array.core.Array")))
    ELSE IF obj = PyStr("<class 'numpy.ndarray'>")
    THEN Val(ArrayTypeSchema(PyType("numpy.ndarray")))
    ELSE Raise("SchemaError", [text |-> "unknown array_type", obj |-> obj])

ArrayTypeSchema_from_json(obj) ==
    IF obj = PyStr("<class 'dask.array.core.Array'>")
    THEN Val(ArrayTypeSchema(PyType("dask.array.core.Array")))
    ELSE IF obj = PyStr("<class 'numpy.ndarray'>")
    THEN Val(ArrayTypeSchema(PyType("numpy.ndarray")))
    ELSE Raise("ValueError", [text |-> "unknown array_type", obj |-> obj])

\* ArrayTypeSchema.json: str() of a class is its repr, of a string the string
ArrayTypeSchema_json(schema) ==
    IF schema.array_type.t = "type"
    THEN Val(PyStr(ClassRepr[schema.array_type.name]))
    ELSE Val(schema.array_type)

\* isinstance(x, cls) where x is a plain value or an array of class x.name
IsInstance(x, cls) ==
    IF x.t = "array" THEN cls.name = x.name ELSE cls.name = x.t

\* an array (the data of a DataArray) of the class named name
Array(name) == [t |-> "array", name |-> name]

\* ArrayTypeSchema.validate
ArrayTypeSchema_validate(schema, array) ==
    IF TypeOf(schema.array_type) # "type"
    THEN Raise("TypeError", [text |-> "isinstance() arg 2 must be a type",
                             type |-> TypeOf(schema.array_type)])
    ELSE IF ~IsInstance(array, schema.array_type)
    THEN Raise("SchemaError", [text |-> "array_type", actual |-> array,
                               expected |-> schema.array_type])
    ELSE Return

(***************************************************************************)
(* AttrSchema, AttrsSchema                                                 *)
(***************************************************************************)
\* AttrSchema.__init__
AttrSchema(type, value) == [cls |-> "AttrSchema", type |-> type, value |-> value]

\* AttrSchema(**val)
AttrSchema_kwargs(val) ==
    IF TypeOf(val) # "dict"
    THEN Raise("TypeError", [text |-> "argument after ** must be a mapping",
                             type |-> TypeOf(val)])
    ELSE IF ~(Keys(val) \subseteq {"type", "value"})
    THEN Raise("TypeError", [text |-> "unexpected keyword argument",
                             type |-> "AttrSchema"])
    ELSE Val(AttrSchema(KwGet(val, "type"), KwGet(val, "value")))

\* AttrSchema.from_json: the whole document is passed as the type
AttrSchema_from_json(obj) == Val(AttrSchema(obj, None))

\* AttrSchema.json
AttrSchema_json(schema) ==
    Val(PyDict(<<[k |-> "type", v |-> schema.type], [k |-> "value", v |-> schema.value]>>))

\* AttrSchema.validate: the SchemaError of the type test is built but not
\* raised, so only a type that isinstance() cannot take ends the call there
AttrSchema_validate(schema, attr) ==
    IF schema.type # None /\ TypeOf(schema.type) # "type"
    THEN Raise("TypeError", [text |-> "isinstance() arg 2 must be a type",
                             type |-> TypeOf(schema.type)])
    ELSE IF schema.value # None /\ schema.value # attr
    THEN Raise("SchemaError", [text |-> "name", actual |-> attr, expected |-> schema.value])
    ELSE Return

\* AttrsSchema.__init__
AttrsSchema(attrs, require_all_keys, allow_extra_keys) ==
    [cls |-> "AttrsSchema", attrs |-> attrs,
     require_all_keys |-> require_all_keys, allow_extra_keys |-> allow_extra_keys]

RECURSIVE AttrsSchema_from_json_entries(_, _)
AttrsSchema_from_json_entries(entries, i) ==
    IF i > Len(entries)
    THEN Val(<<>>)
    ELSE DictItem(entries[i].k, AttrSchema_kwargs(entries[i].v),
                  AttrsSchema_from_json_entries(entries, i + 1))

\* the call of cls(attrs, obj['require_all_keys'], obj['allow_extra_keys']) in
\* AttrsSchema.from_json, attrs being the outcome of the comprehension
AttrsSchema_from_json_cls(obj, attrs) ==
    IF attrs.exc # "none"
    THEN attrs
    ELSE IF "require_all_keys" \notin Keys(obj)
    THEN Raise("KeyError", [text |-> "require_all_keys"])
    ELSE IF "allow_extra_keys" \notin Keys(obj)
    THEN Raise("KeyError", [text |-> "allow_extra_keys"])
    ELSE Val(AttrsSchema(PyDict(attrs.val), KwGet(obj, "require_all_keys"),
                         KwGet(obj, "allow_extra_keys")))

\* AttrsSchema.from_json
AttrsSchema_from_json(obj) ==
    IF TypeOf(obj) # "dict"
    THEN Raise("TypeError", [text |-> "object is not subscriptable", type |-> TypeOf(obj)])
    ELSE IF "attrs" \notin Keys(obj)
    THEN Raise("KeyError", [text |-> "attrs"])
    ELSE IF TypeOf(KwGet(obj, "attrs")) # "dict"
    THEN Raise("AttributeError", [text |-> "no attribute items",
                                  type |-> TypeOf(KwGet(obj, "attrs"))])
    ELSE AttrsSchema_from_json_cls(
             obj, AttrsSchema_from_json_entries(KwGet(obj, "attrs").entries, 1))

\* the loop of AttrsSchema.validate over self.attrs.items()
RECURSIVE AttrsSchema_validate_items(_, _, _)
AttrsSchema_validate_items(entries, i, attrs) ==
    IF i > Len(entries)
    THEN Return
    ELSE IF entries[i].k \notin Keys(attrs)
    THEN Raise("SchemaError", [text |-> "key not in attrs", key |-> entries[i].k])
    ELSE IF TypeOf(entries[i].v) # "AttrSchema"
    THEN Raise("AttributeError", [text |-> "no attribute validate",
                                  type |-> TypeOf(entries[i].v)])
    ELSE Then(AttrSchema_validate(entries[i].v, KwGet(attrs, entries[i].k)),
              AttrsSchema_validate_items(entries, i + 1, attrs))

\* AttrsSchema.validate with the test of the extra keys made first
AttrsSchema_validate_ExtraFirst(schema, attrs) ==
    IF ~Truthy(schema.allow_extra_keys) /\ Keys(attrs) \ Keys(schema.attrs) # {}
    THEN Raise("SchemaError", [text |-> "attrs has extra keys",
                               keys |-> Keys(attrs) \ Keys(schema.attrs)])
    ELSE IF Truthy(schema.require_all_keys) /\ Keys(schema.attrs) \ Keys(attrs) # {}
    THEN Raise("SchemaError", [text |-> "attrs has missing keys",
                               keys |-> Keys(schema.attrs) \ Keys(attrs)])
    ELSE AttrsSchema_validate_items(schema.attrs.entries, 1, attrs)

\* AttrsSchema.validate; attrs is the dict of the array's attributes
AttrsSchema_validate(schema, attrs) ==
    IF Truthy(schema.require_all_keys) /\ Keys(schema.attrs) \ Keys(attrs) # {}
    THEN Raise("SchemaError", [text |-> "attrs has missing keys",
                               keys |-> Keys(schema.attrs) \ Keys(attrs)])
    ELSE IF ~Truthy(schema.allow_extra_keys) /\ Keys(attrs) \ Keys(schema.attrs) # {}
    THEN Raise("SchemaError", [text |-> "attrs has extra keys",
                               keys |-> Keys(attrs) \ Keys(schema.attrs)])
    ELSE AttrsSchema_validate_items(schema.attrs.entries, 1, attrs)

(***************************************************************************)
(* The json property                                                       *)
(***************************************************************************)
\* v.json for any object v: the property of its class, and AttributeError for
\* an object that has none (None, a bool, a dict, ...)
RECURSIVE Json(_)

\* {k: v.json for k, v in d.items()}
RECURSIVE JsonOfValues(_, _)
JsonOfValues(entries, i) ==
    IF i > Len(entries)
    THEN Val(<<>>)
    ELSE LET j == Json(entries[i].v)
         IN  IF j.exc # "none"
             THEN j
             ELSE LET rest == JsonOfValues(entries, i + 1)
                  IN  IF rest.exc # "none"
                      THEN rest
                      ELSE Val(<<[k |-> entries[i].k, v |-> j.val]>> \o rest.val)

\* AttrsSchema.json
AttrsSchema_json(schema) ==
    LET attrs == JsonOfValues(schema.attrs.entries, 1)
    IN  IF attrs.exc # "none"
        THEN attrs
        ELSE Val(PyDict(<<[k |-> "require_all_keys", v |-> schema.require_all_keys],
                          [k |-> "allow_extra_keys", v |-> schema.allow_extra_keys],
                          [k |-> "attrs", v |-> PyDict(attrs.val)]>>))

\* CoordsSchema.json
CoordsSchema_json(schema) ==
    LET coords == JsonOfValues(schema.coords.entries, 1)
    IN  IF coords.exc # "none"
        THEN coords
        ELSE Val(PyDict(<<[k |-> "require_all_keys", v |-> schema.require_all_keys],
                          [k |-> "allow_extra_keys", v |-> schema.allow_extra_keys],
                          [k |-> "coords", v |-> PyDict(coords.val)]>>))

\* DataArraySchema._schema_slots
schema_slots == <<"dtype", "dims", "shape", "coords", "name", "chunks", "attrs", "array_type">>

\* the loop of DataArraySchema.json: a slot whose json raises AttributeError
\* (a facet that is None, or one whose own json does) is left out
RECURSIVE DataArraySchema_json_slots(_, _)
DataArraySchema_json_slots(schema, i) ==
    IF i > Len(schema_slots)
    THEN Val(<<>>)
    ELSE LET j    == Json(schema[schema_slots[i]])
             rest == DataArraySchema_json_slots(schema, i + 1)
         IN  IF j.exc \notin {"none", "AttributeError"}
             THEN j
             ELSE IF rest.exc # "none"
             THEN rest
             ELSE IF j.exc = "AttributeError"
             THEN rest
             ELSE Val(<<[k |-> schema_slots[i], v |-> j.val]>> \o rest.val)

\* DataArraySchema.json
DataArraySchema_json(schema) ==
    LET slots == DataArraySchema_json_slots(schema, 1)
    IN  IF slots.exc # "none" THEN slots ELSE Val(PyDict(slots.val))

\* DatasetSchema.json
DatasetSchema_json(schema) ==
    LET attrs == IF schema.attrs # None THEN Json(schema.attrs) ELSE Val(PyDict(<<>>))
        vars_ == IF Truthy(schema.data_vars)
                 THEN JsonOfValues(schema.data_vars.entries, 1)
                 ELSE Val(<<>>)
        coords == IF Truthy(schema.coords) THEN Json(schema.coords) ELSE Val(None)
    IN  IF attrs.exc # "none" THEN attrs
        ELSE IF vars_.exc # "none" THEN vars_
        ELSE IF coords.exc # "none" THEN coords
        ELSE Val(PyDict(<<[k |-> "data_vars", v |-> PyDict(vars_.val)],
                          [k |-> "attrs", v |-> attrs.val]>>
                        \o (IF Truthy(schema.coords)
                            THEN <<[k |-> "coords", v |-> coords.val]>>
                            ELSE <<>>)))

Json(v) ==
    LET c == TypeOf(v)
    IN  CASE c = "DTypeSchema" -> DTypeSchema_json(v)
          [] c = "DimsSchema" -> DimsSchema_json(v)
          [] c = "ShapeSchema" -> ShapeSchema_json(v)
          [] c = "NameSchema" -> NameSchema_json(v)
          [] c = "ChunksSchema" -> ChunksSchema_json(v)
          [] c = "ArrayTypeSchema" -> ArrayTypeSchema_json(v)
          [] c = "AttrSchema" -> AttrSchema_json(v)
          [] c = "AttrsSchema" -> AttrsSchema_json(v)
          [] c = "CoordsSchema" -> CoordsSchema_json(v)
          [] c = "DataArraySchema" -> DataArraySchema_json(v)
          [] c = "DatasetSchema" -> DatasetSchema_json(v)
          [] OTHER -> Raise("AttributeError", [text |-> "no attribute json", type |-> c])

\* a == b for two json documents: dicts are equal when they have the same keys
\* with equal values, in any order; lists (of ints, strings and None) when
\* their items are equal in order
RECURSIVE PyEq(_, _)
PyEq(a, b) ==
    IF TypeOf(a) # TypeOf(b)
    THEN FALSE
    ELSE IF TypeOf(a) = "dict"
    THEN /\ Keys(a) = Keys(b)
         /\ \A k \in Keys(a) : PyEq(KwGet(a, k), KwGet(b, k))
    ELSE a = b

(***************************************************************************)
(* DataArraySchema and CoordsSchema: construction and from_json            *)
(***************************************************************************)
\* CoordsSchema.__init__
CoordsSchema(coords, require_all_keys, allow_extra_keys) ==
    [cls |-> "CoordsSchema", coords |-> coords,
     require_all_keys |-> require_all_keys, allow_extra_keys |-> allow_extra_keys]

\* callable(f)
Callable(f) == TypeOf(f) = "function"

\* a setter that stores the value as it is given
SetFacet_AsGiven(slot, value) == Val(value)

\* the setter of one facet: None and an instance of the facet's class are
\* stored as they are, any other value goes through the class
SetFacet(slot, value) ==
    CASE value = None -> Val(value)
      [] slot = "dtype" ->
           IF TypeOf(value) = "DTypeSchema" THEN Val(value) ELSE DTypeSchema(value)
      [] slot = "shape" ->
           IF TypeOf(value) = "ShapeSchema" THEN Val(value) ELSE Val(ShapeSchema(value))
      [] slot = "dims" ->
           IF TypeOf(value) = "DimsSchema" THEN Val(value) ELSE Val(DimsSchema(value))
      [] slot = "name" ->
           IF TypeOf(value) = "NameSchema" THEN Val(value) ELSE Val(NameSchema(value))
      [] slot = "coords" ->
           IF TypeOf(value) = "CoordsSchema" THEN Val(value)
           ELSE Val(CoordsSchema(value, PyBool(TRUE), PyBool(TRUE)))
      [] slot = "chunks" ->
           IF TypeOf(value) = "ChunksSchema" THEN Val(value) ELSE Val(ChunksSchema(value))
      [] slot = "attrs" ->
           IF TypeOf(value) = "AttrsSchema" THEN Val(value)
           ELSE Val(AttrsSchema(value, PyBool(TRUE), PyBool(TRUE)))
      [] slot = "array_type" ->
           IF TypeOf(value) = "ArrayTypeSchema" THEN Val(value)
           ELSE Val(ArrayTypeSchema(value))

\* the setter of checks
SetChecks(value) ==
    IF value = None
    THEN Val(<<>>)
    ELSE IF \E i \in 1..Len(value.items) : ~Callable(value.items[i])
    THEN Raise("ValueError", [text |-> "All checks must be callables"])
    ELSE Val(value.items)

\* the keyword arguments of DataArraySchema.__init__
DataArraySchema_params ==
    {"dtype", "shape", "dims", "name", "coords", "chunks", "array_type", "attrs", "checks"}

\* the body of DataArraySchema.__init__, dtype and checks being the outcomes
\* of their setters
DataArraySchema_init(kwargs, dtype, checks) ==
    IF dtype.exc # "none" THEN dtype
    ELSE IF checks.exc # "none" THEN checks
    ELSE Val([cls |-> "DataArraySchema",
              dtype |-> dtype.val,
              shape |-> SetFacet("shape", KwGet(kwargs, "shape")).val,
              dims |-> SetFacet("dims", KwGet(kwargs, "dims")).val,
              name |-> SetFacet("name", KwGet(kwargs, "name")).val,
              coords |-> SetFacet("coords", KwGet(kwargs, "coords")).val,
              chunks |-> SetFacet("chunks", KwGet(kwargs, "chunks")).val,
              attrs |-> SetFacet("attrs", KwGet(kwargs, "attrs")).val,
              array_type |-> SetFacet("array_type", KwGet(kwargs, "array_type")).val,
              checks |-> checks.val])

\* DataArraySchema(**kwargs): __init__ runs the setters in this order, and
\* only those of dtype and checks can raise
DataArraySchema(kwargs) ==
    IF TypeOf(kwargs) # "dict"
    THEN Raise("TypeError", [text |-> "argument after ** must be a mapping",
                             type |-> TypeOf(kwargs)])
    ELSE IF ~(Keys(kwargs) \subseteq DataArraySchema_params)
    THEN Raise("TypeError", [text |-> "unexpected keyword argument",
                             type |-> "DataArraySchema"])
    ELSE DataArraySchema_init(kwargs, SetFacet("dtype", KwGet(kwargs, "dtype")),
                              SetChecks(KwGet(kwargs, "checks")))

\* {k: DataArraySchema(**v) for k, v in coords.items()}
RECURSIVE CoordsSchema_from_json_entries(_, _)
CoordsSchema_from_json_entries(entries, i) ==
    IF i > Len(entries)
    THEN Val(<<>>)
    ELSE DictItem(entries[i].k, DataArraySchema(entries[i].v),
                  CoordsSchema_from_json_entries(entries, i + 1))

\* obj after obj.pop('coords', {})
WithoutKey(obj, key) ==
    PyDict(SelectSeq(obj.entries, LAMBDA e : e.k # key))

\* the call of cls(coords, **obj) in CoordsSchema.from_json, members being
\* the outcome of the comprehension and rest what pop left of obj
CoordsSchema_from_json_cls(rest, members) ==
    IF members.exc # "none"
    THEN members
    ELSE IF ~(Keys(rest) \subseteq {"require_all_keys", "allow_extra_keys"})
    THEN Raise("TypeError", [text |-> "unexpected keyword argument",
                             type |-> "CoordsSchema"])
    ELSE Val(CoordsSchema(
             PyDict(members.val),
             IF "require_all_keys" \in Keys(rest)
             THEN KwGet(rest, "require_all_keys") ELSE PyBool(TRUE),
             IF "allow_extra_keys" \in Keys(rest)
             THEN KwGet(rest, "allow_extra_keys") ELSE PyBool(TRUE)))

\* CoordsSchema.from_json: the members are built with DataArraySchema(**v),
\* the rest of the document is passed as keyword arguments
CoordsSchema_from_json(obj) ==
    IF TypeOf(obj) # "dict"
    THEN Raise("AttributeError", [text |-> "no attribute pop", type |-> TypeOf(obj)])
    ELSE IF "coords" \in Keys(obj) /\ TypeOf(KwGet(obj, "coords")) # "dict"
    THEN Raise("AttributeError", [text |-> "no attribute items",
                                  type |-> TypeOf(KwGet(obj, "coords"))])
    ELSE CoordsSchema_from_json_cls(
             WithoutKey(obj, "coords"),
             CoordsSchema_from_json_entries(
                 IF "coords" \in Keys(obj) THEN KwGet(obj, "coords").entries ELSE <<>>, 1))

\* X.from_json(obj[slot]) of DataArraySchema.from_json
FacetFromJson(slot, obj) ==
    CASE slot = "dtype" -> DTypeSchema_from_json(obj)
      [] slot = "shape" -> ShapeSchema_from_json(obj)
      [] slot = "dims" -> DimsSchema_from_json(obj)
      [] slot = "name" -> NameSchema_from_json(obj)
      [] slot = "coords" -> CoordsSchema_from_json(obj)
      [] slot = "chunks" -> ChunksSchema_from_json(obj)
      [] slot = "array_type" -> ArrayTypeSchema_from_json(obj)
      [] slot = "attrs" -> AttrsSchema_from_json(obj)

\* the order in which DataArraySchema.from_json looks for the keys
from_json_slots == <<"dtype", "shape", "dims", "name", "coords", "chunks", "array_type", "attrs">>

RECURSIVE DataArraySchema_from_json_slots(_, _)
DataArraySchema_from_json_slots(obj, i) ==
    IF i > Len(from_json_slots)
    THEN Val(<<>>)
    ELSE IF from_json_slots[i] \notin Keys(obj)
    THEN DataArraySchema_from_json_slots(obj, i + 1)
    ELSE DictItem(from_json_slots[i],
                  FacetFromJson(from_json_slots[i], KwGet(obj, from_json_slots[i])),
                  DataArraySchema_from_json_slots(obj, i + 1))

\* the call of cls(**kwargs) in DataArraySchema.from_json
DataArraySchema_from_json_cls(kwargs) ==
    IF kwargs.exc # "none" THEN kwargs ELSE DataArraySchema(PyDict(kwargs.val))

\* DataArraySchema.from_json
DataArraySchema_from_json(obj) ==
    IF TypeOf(obj) # "dict"
    THEN Raise("TypeError", [text |-> "argument is not iterable", type |-> TypeOf(obj)])
    ELSE DataArraySchema_from_json_cls(DataArraySchema_from_json_slots(obj, 1))

(***************************************************************************)
(* DatasetSchema: construction and from_json                               *)
(***************************************************************************)
\* the setter of data_vars for a dict: a DataArraySchema is kept, any other
\* value v becomes DataArraySchema(**v)
RECURSIVE SetDataVars(_, _)
SetDataVars(entries, i) ==
    IF i > Len(entries)
    THEN Val(<<>>)
    ELSE DictItem(entries[i].k,
                  IF TypeOf(entries[i].v) = "DataArraySchema"
                  THEN Val(entries[i].v)
                  ELSE DataArraySchema(entries[i].v),
                  SetDataVars(entries, i + 1))

\* the body of DatasetSchema.__init__, vars_ being the outcome of the setter
\* of data_vars
DatasetSchema_init(vars_, coords, attrs, checks) ==
    IF vars_.exc # "none"
    THEN vars_
    ELSE Val([cls |-> "DatasetSchema",
              data_vars |-> vars_.val,
              coords |-> SetFacet("coords", coords).val,
              attrs |-> SetFacet("attrs", attrs).val,
              checks |-> checks])

\* DatasetSchema(data_vars, coords, attrs, checks): checks are stored as given
DatasetSchema(data_vars, coords, attrs, checks) ==
    DatasetSchema_init(
        IF data_vars = None THEN Val(None)
        ELSE IF TypeOf(data_vars) = "dict"
        THEN AsDict(SetDataVars(data_vars.entries, 1))
        ELSE Raise("ValueError", [text |-> "must set data_vars with a dict"]),
        coords, attrs, checks)

\* {k: from_json(v) for k, v in d.items()} of DatasetSchema.from_json, for
\* the from_json of DataArraySchema, CoordsSchema or AttrsSchema
RECURSIVE FromJsonOfValues(_, _, _)
FromJsonOfValues(what, entries, i) ==
    IF i > Len(entries)
    THEN Val(<<>>)
    ELSE DictItem(entries[i].k,
                  CASE what = "data_vars" -> DataArraySchema_from_json(entries[i].v)
                    [] what = "coords" -> CoordsSchema_from_json(entries[i].v)
                    [] what = "attrs" -> AttrsSchema_from_json(entries[i].v),
                  FromJsonOfValues(what, entries, i + 1))

\* the keyword argument DatasetSchema.from_json builds from obj[what]
DatasetSchema_from_json_kwarg(what, obj) ==
    IF what \notin Keys(obj)
    THEN Val(None)
    ELSE IF TypeOf(KwGet(obj, what)) # "dict"
    THEN Raise("AttributeError", [text |-> "no attribute items",
                                  type |-> TypeOf(KwGet(obj, what))])
    ELSE AsDict(FromJsonOfValues(what, KwGet(obj, what).entries, 1))

\* the call of cls(**kwargs) in DatasetSchema.from_json
DatasetSchema_from_json_cls(vars_, coords, attrs) ==
    IF vars_.exc # "none" THEN vars_
    ELSE IF coords.exc # "none" THEN coords
    ELSE IF attrs.exc # "none" THEN attrs
    ELSE DatasetSchema(vars_.val, coords.val, attrs.val, None)

\* DatasetSchema.from_json
DatasetSchema_from_json(obj) ==
    IF TypeOf(obj) # "dict"
    THEN Raise("TypeError", [text |-> "argument is not iterable", type |-> TypeOf(obj)])
    ELSE DatasetSchema_from_json_cls(DatasetSchema_from_json_kwarg("data_vars", obj),
                                     DatasetSchema_from_json_kwarg("coords", obj),
                                     DatasetSchema_from_json_kwarg("attrs", obj))

(***************************************************************************)
(* Arrays and datasets, and the validate methods of the composite schemas  *)
(***************************************************************************)
\* an xarray.DataArray, as far as the schemas read it
DataArray(dtype, name, dims, shape, coords, chunks, attrs, data) ==
    [t |-> "DataArray", dtype |-> dtype, name |-> name, dims |-> dims, shape |-> shape,
     coords |-> coords, chunks |-> chunks, attrs |-> attrs, data |-> data]

\* an xarray.Dataset, as far as the schemas read it
Dataset(data_vars, attrs) ==
    [t |-> "Dataset", data_vars |-> data_vars, attrs |-> attrs]

\* a check function: the name says what it asserts of the object it is given
Function(name) == [t |-> "function", name |-> name]

\* what the check functions of the tests assert of the object they are given
CheckHolds(check, obj) ==
    CASE check.name = "check_foo" /\ obj.t = "DataArray" -> obj.name = PyStr("foo")
      [] check.name = "check_foo" /\ obj.t = "Dataset" -> "foo" \in Keys(obj.data_vars)
      [] check.name = "check_bar" /\ obj.t = "DataArray" -> obj.name = PyStr("bar")
      [] OTHER -> TRUE

\* a validate that turns the failure of a check into a SchemaError
CallCheck_Wrapped(check, obj) ==
    IF ~Callable(check)
    THEN Raise("TypeError", [text |-> "object is not callable", type |-> TypeOf(check)])
    ELSE IF ~CheckHolds(check, obj)
    THEN Raise("SchemaError", [text |-> check.name])
    ELSE Return

\* check(obj) for the check functions of the tests: a failed assert leaves
\* the check as an AssertionError
CallCheck(check, obj) ==
    IF ~Callable(check)
    THEN Raise("TypeError", [text |-> "object is not callable", type |-> TypeOf(check)])
    ELSE IF ~CheckHolds(check, obj)
    THEN Raise("AssertionError", [text |-> check.name])
    ELSE Return

RECURSIVE RunChecks(_, _, _)
RunChecks(checks, i, obj) ==
    IF i > Len(checks)
    THEN Return
    ELSE LET r == CallCheck(checks[i], obj)
         IN  IF r.exc # "none" THEN r ELSE RunChecks(checks, i + 1, obj)

\* a validate that reports an input that is no DataArray as a SchemaError
NotDataArrayError_AsSchemaError ==
    Raise("SchemaError", [text |-> "Input must be a xarray.DataArray"])

\* raise ValueError('Input must be a xarray.DataArray')
NotDataArrayError == Raise("ValueError", [text |-> "Input must be a xarray.DataArray"])

\* whether DataArraySchema.validate passes over the facet: attrs when it is
\* falsy, any other facet when it is None
FacetSkipped(schema, slot) ==
    IF slot = "attrs" THEN ~Truthy(schema.attrs) ELSE schema[slot] = None

\* a validate that goes through the facets in the order of _schema_slots
validate_slots_AsSchemaSlots ==
    <<"dtype", "dims", "shape", "coords", "name", "chunks", "attrs", "array_type">>

\* the order in which DataArraySchema.validate goes through the facets
validate_slots == <<"dtype", "name", "dims", "shape", "coords", "chunks", "attrs", "array_type">>

RECURSIVE DataArraySchema_validate(_, _)

\* the loop of CoordsSchema.validate over self.coords.items()
RECURSIVE CoordsSchema_validate_items(_, _, _)
CoordsSchema_validate_items(entries, i, coords) ==
    IF i > Len(entries)
    THEN Return
    ELSE IF entries[i].k \notin Keys(coords)
    THEN Raise("SchemaError", [text |-> "key not in coords", key |-> entries[i].k])
    ELSE IF TypeOf(entries[i].v) # "DataArraySchema"
    THEN Raise("AttributeError", [text |-> "no attribute validate",
                                  type |-> TypeOf(entries[i].v)])
    ELSE Then(DataArraySchema_validate(entries[i].v, KwGet(coords, entries[i].k)),
              CoordsSchema_validate_items(entries, i + 1, coords))

\* CoordsSchema.validate; coords is the dict of the array's coordinates
CoordsSchema_validate(schema, coords) ==
    IF Truthy(schema.require_all_keys) /\ Keys(schema.coords) \ Keys(coords) # {}
    THEN Raise("SchemaError", [text |-> "coords has missing keys",
                               keys |-> Keys(schema.coords) \ Keys(coords)])
    ELSE IF ~Truthy(schema.allow_extra_keys) /\ Keys(coords) \ Keys(schema.coords) # {}
    THEN Raise("SchemaError", [text |-> "coords has extra keys",
                               keys |-> Keys(coords) \ Keys(schema.coords)])
    ELSE CoordsSchema_validate_items(schema.coords.entries, 1, coords)

\* the validation of one facet of a DataArraySchema on the array da; the facet
\* of attrs is skipped when it is falsy, the others when they are None
ValidateFacet(schema, slot, da) ==
    CASE slot = "dtype" ->
             IF schema.dtype = None THEN Return
             ELSE DTypeSchema_validate(schema.dtype, da.dtype)
      [] slot = "name" ->
             IF schema.name = None THEN Return
             ELSE NameSchema_validate(schema.name, da.name)
      [] slot = "dims" ->
             IF schema.dims = None THEN Return
             ELSE DimsSchema_validate(schema.dims, da.dims)
      [] slot = "shape" ->
             IF schema.shape = None THEN Return
             ELSE ShapeSchema_validate(schema.shape, da.shape)
      [] slot = "coords" ->
             IF schema.coords = None THEN Return
             ELSE CoordsSchema_validate(schema.coords, da.coords)
      [] slot = "chunks" ->
             IF schema.chunks = None THEN Return
             ELSE ChunksSchema_validate(schema.chunks, da.chunks, da.dims, da.shape)
      [] slot = "attrs" ->
             IF ~Truthy(schema.attrs) THEN Return
             ELSE AttrsSchema_validate(schema.attrs, da.attrs)
      [] slot = "array_type" ->
             IF schema.array_type = None THEN Return
             ELSE ArrayTypeSchema_validate(schema.array_type, da.data)

RECURSIVE ValidateFacets(_, _, _)
ValidateFacets(schema, i, da) ==
    IF i > Len(validate_slots)
    THEN Return
    ELSE Then(ValidateFacet(schema, validate_slots[i], da),
              ValidateFacets(schema, i + 1, da))

DataArraySchema_validate(schema, da) ==
    IF TypeOf(da) # "DataArray"
    THEN NotDataArrayError
    ELSE Then(ValidateFacets(schema, 1, da), RunChecks(schema.checks, 1, da))

\* the loop of DatasetSchema.validate over self.data_vars.items()
RECURSIVE DatasetSchema_validate_items(_, _, _)
DatasetSchema_validate_items(entries, i, ds) ==
    IF i > Len(entries)
    THEN Return
    ELSE IF entries[i].v = None
    THEN DatasetSchema_validate_items(entries, i + 1, ds)
    ELSE IF TypeOf(ds) # "Dataset"
    THEN Raise("AttributeError", [text |-> "no attribute data_vars", type |-> TypeOf(ds)])
    ELSE IF entries[i].k \notin Keys(ds.data_vars)
    THEN Raise("SchemaError", [text |-> "data variable not in ds", key |-> entries[i].k])
    ELSE Then(DataArraySchema_validate(entries[i].v, KwGet(ds.data_vars, entries[i].k)),
              DatasetSchema_validate_items(entries, i + 1, ds))

\* DatasetSchema.validate
DatasetSchema_validate(schema, ds) ==
    Then(IF schema.data_vars = None THEN Return
         ELSE DatasetSchema_validate_items(schema.data_vars.entries, 1, ds),
         IF schema.coords # None
         THEN Raise("NotImplementedError", [text |-> "coords schema not implemented yet"])
         ELSE Then(IF ~Truthy(schema.attrs) THEN Return
                   ELSE AttrsSchema_validate(schema.attrs, ds.attrs),
                   IF Truthy(schema.checks)
                   THEN RunChecks(schema.checks.items, 1, ds)
                   ELSE Return))

(***************************************************************************)
(* Inputs of ChunksSchema.validate                                         *)
(***************************************************************************)
\* the block sequences of one axis of a chunked array: at least one block
BlockSeqs == SeqsUpTo(0..MaxBlock, MaxBlocks) \ {<<>>}

Extents == 0..MaxBlock

\* the block sequences and extents the tests and the documentation use
ExampleAxes ==
    { [ac |-> <<4>>, n |-> 4], [ac |-> <<1, 2, 1>>, n |-> 4],
      [ac |-> <<2, 3, 2>>, n |-> 4], [ac |-> <<2, 2>>, n |-> 4],
      [ac |-> <<2, 1>>, n |-> 3], [ac |-> <<2, 3, 2>>, n |-> 7],
      [ac |-> <<2, 2, 3>>, n |-> 7], [ac |-> <<2, 2, 1>>, n |-> 5] }

Axes == ExampleAxes \cup {[ac |-> ac, n |-> n] : ac \in BlockSeqs, n \in Extents}

\* the second axis of a two-dimensional array
YAxes ==
    { [ac |-> <<10>>, n |-> 10], [ac |-> <<5, 5>>, n |-> 10],
      [ac |-> <<2, 1>>, n |-> 3], [ac |-> <<1, 2>>, n |-> 3] }

XAxes ==
    { [ac |-> <<2, 2>>, n |-> 4], [ac |-> <<2, 1>>, n |-> 3],
      [ac |-> <<1, 2>>, n |-> 3], [ac |-> <<4>>, n |-> 4] }

ChunkArgs(chunks, dims, shape) == [chunks |-> chunks, dims |-> dims, shape |-> shape]

\* (chunks, dims, shape) of a DataArray: not chunked, chunked with no axis,
\* with one axis x, with two axes x and y
ChunkArgs0 ==
    { ChunkArgs(None, <<>>, <<>>), ChunkArgs(Chunks(<<>>), <<>>, <<>>) }

ChunkArgs1 ==
    {ChunkArgs(None, <<"x">>, <<n>>) : n \in Extents}
    \cup {ChunkArgs(Chunks(<<a.ac>>), <<"x">>, <<a.n>>) : a \in Axes}

ChunkArgs2 ==
    {ChunkArgs(Chunks(<<a.ac, b.ac>>), <<"x", "y">>, <<a.n, b.n>>) :
        a \in XAxes, b \in YAxes}

\* the expected chunks of one dimension: an int, a list, a tuple or None
ExpectedSeqs == {<<>>, <<2>>, <<2, 2>>, <<2, 1>>, <<1, 2, 1>>, <<10>>}

ExpectedInts == {PyInt(n) : n \in (-2)..(MaxBlock + 1)}

ExpectedChunks ==
    ExpectedInts \cup {None}
    \cup {PyList(s) : s \in ExpectedSeqs} \cup {PyTuple(s) : s \in ExpectedSeqs}

ExpectedChunks2 == {PyInt(-1), PyInt(2), PyInt(5), None, PyTuple(<<2, 1>>), PyList(<<10>>)}

ChunksDicts1 == {PyDict(<<[k |-> "x", v |-> e]>>) : e \in ExpectedChunks}

ChunksDicts2 ==
    {PyDict(<<[k |-> "y", v |-> e]>>) : e \in ExpectedChunks2}
    \cup {PyDict(<<[k |-> "x", v |-> e], [k |-> "y", v |-> f]>>) :
            e \in ExpectedChunks2, f \in ExpectedChunks2}
    \cup {PyDict(<<[k |-> "y", v |-> e], [k |-> "x", v |-> f]>>) :
            e \in ExpectedChunks2, f \in ExpectedChunks2}

ChunksBools == {PyBool(TRUE), PyBool(FALSE)}

\* expectations that are neither a bool nor a dict
ChunksOthers == {PyInt(2), PyStr("auto"), PyList(<<2>>), PyTuple(<<>>), None}

\* dicts that declare a dimension the arrays do not have
ChunksDictsOff ==
    {PyDict(<<[k |-> "z", v |-> e]>>) : e \in ExpectedChunks2}
    \cup {PyDict(<<[k |-> "x", v |-> PyInt(2)], [k |-> "z", v |-> e]>>) : e \in ExpectedChunks2}

\* chunks with fewer axes than the array has dims
ChunkArgsShort ==
    {ChunkArgs(Chunks(<< <<2, 2>> >>), <<"x", "y">>, <<4, 4>>),
     ChunkArgs(Chunks(<<>>), <<"x">>, <<4>>)}

\* the calls of ChunksSchema.validate: a bool on every array, a one-key dict
\* on the arrays with one axis, one-key and two-key dicts on those with two,
\* and the malformed and mismatched calls
InitChunks ==
    /\ op = "ChunksSchema.validate"
    /\ \/ /\ self \in {ChunksSchema(c) : c \in ChunksBools}
          /\ arg \in ChunkArgs0 \cup ChunkArgs1 \cup ChunkArgs2
       \/ /\ self \in {ChunksSchema(c) : c \in ChunksDicts1}
          /\ arg \in ChunkArgs1
       \/ /\ self \in {ChunksSchema(c) : c \in ChunksDicts1 \cup ChunksDicts2}
          /\ arg \in ChunkArgs2
       \/ /\ self \in {ChunksSchema(c) : c \in ChunksOthers}
          /\ arg \in ChunkArgs0 \cup ChunkArgs1
       \/ /\ self \in {ChunksSchema(c) : c \in ChunksDictsOff}
          /\ arg \in ChunkArgs0 \cup ChunkArgs1
       \/ /\ self \in {ChunksSchema(c) : c \in ChunksBools \cup ChunksDicts1 \cup ChunksDicts2}
          /\ arg \in ChunkArgsShort

(***************************************************************************)
(* Serialization round trips                                               *)
(***************************************************************************)
\* cls.from_json(obj) for the class named cls
FromJson(cls, obj) ==
    CASE cls = "DTypeSchema" -> DTypeSchema_from_json(obj)
      [] cls = "DimsSchema" -> DimsSchema_from_json(obj)
      [] cls = "ShapeSchema" -> ShapeSchema_from_json(obj)
      [] cls = "NameSchema" -> NameSchema_from_json(obj)
      [] cls = "ChunksSchema" -> ChunksSchema_from_json(obj)
      [] cls = "ArrayTypeSchema" -> ArrayTypeSchema_from_json(obj)
      [] cls = "AttrSchema" -> AttrSchema_from_json(obj)
      [] cls = "AttrsSchema" -> AttrsSchema_from_json(obj)
      [] cls = "CoordsSchema" -> CoordsSchema_from_json(obj)
      [] cls = "DataArraySchema" -> DataArraySchema_from_json(obj)
      [] cls = "DatasetSchema" -> DatasetSchema_from_json(obj)

\* schema.validate(c); the argument of ChunksSchema.validate is the triple
\* (chunks, dims, shape)
Validate(schema, c) ==
    LET cls == TypeOf(schema)
    IN  CASE cls = "DTypeSchema" -> DTypeSchema_validate(schema, c)
          [] cls = "DimsSchema" -> DimsSchema_validate(schema, c)
          [] cls = "ShapeSchema" -> ShapeSchema_validate(schema, c)
          [] cls = "NameSchema" -> NameSchema_validate(schema, c)
          [] cls = "ChunksSchema" -> ChunksSchema_validate(schema, c.chunks, c.dims, c.shape)
          [] cls = "ArrayTypeSchema" -> ArrayTypeSchema_validate(schema, c)
          [] cls = "AttrSchema" -> AttrSchema_validate(schema, c)
          [] cls = "AttrsSchema" -> AttrsSchema_validate(schema, c)
          [] cls = "CoordsSchema" -> CoordsSchema_validate(schema, c)
          [] cls = "DataArraySchema" -> DataArraySchema_validate(schema, c)
          [] cls = "DatasetSchema" -> DatasetSchema_validate(schema, c)

\* type(schema).from_json(j) of the document j that schema.json returned
FromJsonOf(cls, j) == IF j.exc # "none" THEN j ELSE FromJson(cls, j.val)

\* rt.json of the schema rt that from_json returned
JsonOf(rt) == IF rt.exc # "none" THEN rt ELSE Json(rt.val)

\* the three steps of a round trip, once from_json has run
RoundTripSteps(j, rt) == [json |-> j, rt |-> rt, rtjson |-> JsonOf(rt)]

RoundTripFrom(cls, j) == RoundTripSteps(j, FromJsonOf(cls, j))

\* direct is the outcome of schema.validate(c), rt that of from_json(schema.json)
ValidateVia(rt, direct, c) ==
    [direct |-> direct, rt |-> rt,
     via |-> IF rt.exc # "none" THEN rt ELSE Validate(rt.val, c)]

\* rt = type(schema).from_json(schema.json); rt.json, as the round-trip tests
\* do; a step that raises ends the round trip with that exception
RoundTripOf(schema) == RoundTripFrom(TypeOf(schema), Json(schema))

\* schema.validate(c) and type(schema).from_json(schema.json).validate(c)
ValidateBothOf(schema, c) ==
    ValidateVia(FromJsonOf(TypeOf(schema), Json(schema)), Validate(schema, c), c)

(***************************************************************************)
(* The schemas and the arrays the calls are made with                      *)
(***************************************************************************)
\* longest dims and shape tuple of a DimsSchema or ShapeSchema
MaxDims == 2

DTypeLikes ==
    {NpKind(k) : k \in KindNames}
    \cup {PyStr("i4"), PyStr("<i8"), PyStr("float32"), PyType("numpy.int64"), NpDtype("|u1")}

DTypeSchemas == {DTypeSchema(d).val : d \in DTypeLikes}

DimNames == {PyStr("x"), PyStr("y"), None}

DimsSchemas ==
    {DimsSchema(PyTuple(d)) : d \in SeqsUpTo(DimNames, MaxDims)}
    \cup {DimsSchema(PyList(d)) : d \in SeqsUpTo(DimNames, MaxDims)}

Sizes == {PyInt(2), PyInt(4), None}

ShapeSchemas ==
    {ShapeSchema(PyTuple(d)) : d \in SeqsUpTo(Sizes, MaxDims)}
    \cup {ShapeSchema(PyList(d)) : d \in SeqsUpTo(Sizes, MaxDims)}

NameSchemas == {NameSchema(PyStr("foo")), NameSchema(PyStr("x"))}

ArrayTypeSchemas ==
    {ArrayTypeSchema(PyType(n)) : n \in {"numpy.ndarray", "dask.array.core.Array", "sparse.COO"}}

ChunksSchemas == {ChunksSchema(c) : c \in ChunksBools \cup ChunksDicts1 \cup ChunksDicts2}

AttrSchemas ==
    {AttrSchema(ty, v) : ty \in {None, PyType("str"), PyType("int")},
                         v \in {None, PyStr("bar"), PyInt(1)}}

\* the AttrSchemas the table-level attrs are made of
FewAttrSchemas ==
    {AttrSchema(None, PyStr("bar")), AttrSchema(PyType("str"), None), AttrSchema(None, None)}

AttrsDicts ==
    {PyDict(<<>>)}
    \cup {PyDict(<<[k |-> "foo", v |-> a]>>) : a \in FewAttrSchemas}
    \cup {PyDict(<<[k |-> "foo", v |-> a], [k |-> "units", v |-> b]>>) :
            a \in FewAttrSchemas, b \in FewAttrSchemas}

AttrsSchemas ==
    {AttrsSchema(d, PyBool(r), PyBool(e)) : d \in AttrsDicts, r \in BOOLEAN, e \in BOOLEAN}

\* the value of each facet of the DataArraySchemas that are built
FacetValue ==
    [dtype |-> PyStr("i4"),
     shape |-> PyTuple(<<PyInt(2)>>),
     dims |-> PyTuple(<<PyStr("x")>>),
     name |-> PyStr("foo"),
     chunks |-> PyBool(FALSE),
     attrs |-> PyDict(<<[k |-> "foo", v |-> AttrSchema(None, PyStr("bar"))]>>),
     array_type |-> PyType("numpy.ndarray")]

\* the member schemas of a coords facet: one facet each, with nested coords
MemberKwargs ==
    {PyDict(<<>>), PyDict(<<[k |-> "name", v |-> PyStr("x")]>>),
     PyDict(<<[k |-> "dtype", v |-> NpKind("integer")]>>),
     PyDict(<<[k |-> "coords",
               v |-> PyDict(<<[k |-> "y",
                               v |-> DataArraySchema(
                                         PyDict(<<[k |-> "name", v |-> PyStr("y")]>>)).val]>>)]>>)}
    \cup {PyDict(<<[k |-> f, v |-> FacetValue[f]]>>) : f \in DOMAIN FacetValue}

MemberSchemas == {DataArraySchema(kw).val : kw \in MemberKwargs}

CoordsSchemas ==
    {CoordsSchema(PyDict(<<[k |-> "x", v |-> m]>>), PyBool(TRUE), PyBool(TRUE)) :
        m \in MemberSchemas}
    \cup {CoordsSchema(PyDict(<<[k |-> "x", v |-> m]>>), PyBool(FALSE), PyBool(FALSE)) :
            m \in MemberSchemas}
    \cup {CoordsSchema(PyDict(<<>>), PyBool(TRUE), PyBool(TRUE))}

\* the keyword arguments for a set of facets, in the order of FacetOrder
FacetOrder == <<"dtype", "shape", "dims", "name", "chunks", "attrs", "array_type">>

KwargsOf(facets, coords) ==
    PyDict([i \in 1..Len(SelectSeq(FacetOrder, LAMBDA f : f \in facets)) |->
               LET f == SelectSeq(FacetOrder, LAMBDA g : g \in facets)[i]
               IN  [k |-> f, v |-> FacetValue[f]]]
           \o (IF coords = None THEN <<>> ELSE <<[k |-> "coords", v |-> coords]>>))

\* DataArraySchemas with any combination of the facets
DataArraySchemas ==
    {DataArraySchema(KwargsOf(facets, c)).val :
        facets \in SUBSET (DOMAIN FacetValue), c \in {None} \cup CoordsSchemas}

\* the DataArraySchemas of the data_vars of the DatasetSchemas
VarSchemas ==
    {DataArraySchema(KwargsOf(facets, None)).val :
        facets \in {{}, {"name"}, {"name", "dtype", "dims"}, {"attrs"}}}

DataVars ==
    {None, PyDict(<<>>)}
    \cup {PyDict(<<[k |-> "foo", v |-> a]>>) : a \in VarSchemas}
    \cup {PyDict(<<[k |-> "foo", v |-> a], [k |-> "bar", v |-> b]>>) :
            a \in VarSchemas, b \in VarSchemas}

\* DatasetSchemas with no facet, with data_vars only, with attrs (a dict or
\* an AttrsSchema)
DatasetSchemas ==
    {DatasetSchema(v, None, a, None).val :
        v \in DataVars,
        a \in {None, FacetValue.attrs,
               AttrsSchema(FacetValue.attrs, PyBool(TRUE), PyBool(FALSE))}}

InitRoundTrip ==
    /\ op = "roundtrip"
    /\ self \in DTypeSchemas \cup DimsSchemas \cup ShapeSchemas \cup NameSchemas
                \cup ArrayTypeSchemas \cup ChunksSchemas \cup AttrSchemas
                \cup AttrsSchemas \cup CoordsSchemas \cup DataArraySchemas
                \cup DatasetSchemas
    /\ arg = None

\* the arrays the schemas are validated on: one array and its variations
CoordArray(coords) ==
    DataArray(NpDtype("<i4"), PyStr("x"), <<"x">>, <<2>>, coords, None,
              PyDict(<<[k |-> "foo", v |-> PyStr("bar")]>>), Array("numpy.ndarray"))

LeafArray ==
    DataArray(NpDtype("<i4"), PyStr("y"), <<"x">>, <<2>>, PyDict(<<>>), None,
              PyDict(<<>>), Array("numpy.ndarray"))

CoordsDicts ==
    {PyDict(<<>>),
     PyDict(<<[k |-> "x", v |-> CoordArray(PyDict(<<>>))]>>),
     PyDict(<<[k |-> "x", v |-> CoordArray(PyDict(<<[k |-> "y", v |-> LeafArray]>>))]>>),
     PyDict(<<[k |-> "x", v |-> LeafArray], [k |-> "z", v |-> LeafArray]>>)}

AttrValues == {PyStr("bar"), PyStr("baz"), PyInt(1)}

AttrsValues ==
    {PyDict(<<>>),
     PyDict(<<[k |-> "foo", v |-> PyStr("bar")]>>),
     PyDict(<<[k |-> "foo", v |-> PyInt(1)], [k |-> "units", v |-> PyStr("bar")]>>),
     PyDict(<<[k |-> "foo", v |-> PyInt(1)], [k |-> "other", v |-> PyStr("bar")]>>),
     PyDict(<<[k |-> "other", v |-> PyStr("bar")]>>)}

DataArrays ==
    {DataArray(NpDtype(d), PyStr("foo"), <<"x">>, <<2>>, c, None, a, Array("numpy.ndarray")) :
        d \in {"<i4", "<f4"}, c \in CoordsDicts,
        a \in {PyDict(<<>>), PyDict(<<[k |-> "foo", v |-> PyStr("bar")]>>)}}
    \cup {DataArray(NpDtype("<i4"), n, <<"x", "y">>, <<2, 4>>, PyDict(<<>>),
                    Chunks(<< <<1, 1>>, <<4>> >>), PyDict(<<>>),
                    Array("dask.array.core.Array")) : n \in {None, PyStr("foo")}}

Datasets ==
    {Dataset(v, a) :
        v \in {PyDict(<<>>)}
              \cup {PyDict(<<[k |-> "foo", v |-> x]>>) : x \in DataArrays},
        a \in {PyDict(<<>>), PyDict(<<[k |-> "foo", v |-> PyStr("bar")]>>)}}

\* the DataArraySchemas that are validated: at most one facet beside coords
OneFacetSchemas ==
    {DataArraySchema(KwargsOf(facets, c)).val :
        facets \in {{}} \cup {{f} : f \in DOMAIN FacetValue},
        c \in {None} \cup CoordsSchemas}

\* what a schema of each class is validated on
ValidateArgs(schema) ==
    LET cls == TypeOf(schema)
    IN  CASE cls = "DTypeSchema" -> {NpDtype(d) : d \in {"<i4", "<i8", "<f4", "|u1"}}
          [] cls = "DimsSchema" -> SeqsUpTo({"x", "y"}, MaxDims)
          [] cls = "ShapeSchema" -> SeqsUpTo({2, 4}, MaxDims)
          [] cls = "NameSchema" -> {PyStr("foo"), PyStr("x"), None}
          [] cls = "ChunksSchema" -> ChunkArgs0 \cup ChunkArgs2
          [] cls = "ArrayTypeSchema" ->
                 {Array("numpy.ndarray"), Array("dask.array.core.Array"), PyStr("bar")}
          [] cls = "AttrSchema" -> AttrValues
          [] cls = "AttrsSchema" -> AttrsValues
          [] cls = "CoordsSchema" -> CoordsDicts
          [] cls = "DataArraySchema" -> DataArrays
          [] cls = "DatasetSchema" -> Datasets

InitValidateBoth ==
    /\ op = "validate_both"
    /\ self \in DTypeSchemas \cup DimsSchemas \cup ShapeSchemas \cup NameSchemas
                \cup ArrayTypeSchemas
                \cup {ChunksSchema(c) : c \in ChunksBools \cup ChunksDicts2}
                \cup AttrSchemas \cup AttrsSchemas \cup CoordsSchemas
                \cup OneFacetSchemas \cup DatasetSchemas
    /\ arg \in ValidateArgs(self)

(***************************************************************************)
(* DataArraySchema.validate, statement by statement                        *)
(***************************************************************************)
\* an entry of calls: the facet validator of slot was called and did out
FacetCall(slot, out) == [what |-> slot, out |-> out]

\* an entry of calls: the check f was called with obj and did out
CheckCall(f, obj, out) == [what |-> "check", f |-> f, with |-> obj, out |-> out]

\* the lists of checks of the schemas that are validated step by step
ChecksLists ==
    {None, PyList(<<Function("check_foo")>>),
     PyList(<<Function("check_bar"), Function("check_foo")>>),
     PyList(<<Function("check_foo"), Function("check_bar")>>)}

\* the facets the schemas are built with: none, one, two or all of them
StepFacets ==
    {f \in SUBSET (DOMAIN FacetValue) :
        Cardinality(f) <= 2 \/ f = DOMAIN FacetValue}

\* keyword arguments with checks
WithChecks(kwargs, checks) ==
    IF checks = None THEN kwargs
    ELSE PyDict(kwargs.entries \o <<[k |-> "checks", v |-> checks]>>)

StepCoords ==
    {None, CoordsSchema(PyDict(<<[k |-> "x", v |-> DataArraySchema(
                            PyDict(<<[k |-> "name", v |-> PyStr("x")]>>)).val]>>),
                        PyBool(TRUE), PyBool(TRUE))}

StepSchemas ==
    {DataArraySchema(WithChecks(KwargsOf(f, c), ch)).val :
        f \in StepFacets, c \in StepCoords, ch \in ChecksLists}

\* the objects they are validated on: arrays that break none, one or several
\* of the facets, and objects that are no DataArray
StepArrays ==
    {DataArray(NpDtype(d), PyStr("foo"), <<"x">>, <<2>>, c, None, a, Array("numpy.ndarray")) :
        d \in {"<i4", "<f4"},
        c \in {PyDict(<<>>), PyDict(<<[k |-> "x", v |-> CoordArray(PyDict(<<>>))]>>)},
        a \in {PyDict(<<>>), PyDict(<<[k |-> "foo", v |-> PyStr("bar")]>>)}}
    \cup {DataArray(NpDtype("<i4"), n, <<"x", "y">>, <<2, 4>>, PyDict(<<>>),
                    Chunks(<< <<1, 1>>, <<4>> >>), PyDict(<<>>),
                    Array("dask.array.core.Array")) : n \in {None, PyStr("foo")}}
    \cup {DataArray(NpDtype("<i4"), PyStr("bar"), <<"x">>, <<2>>, PyDict(<<>>), None,
                    PyDict(<<[k |-> "foo", v |-> PyStr("bar")]>>), Array("numpy.ndarray"))}

NotArrays == {Dataset(PyDict(<<>>), PyDict(<<>>)), PyStr("foo"), None}

InitDataArrayValidate ==
    /\ op = "DataArraySchema.validate"
    /\ self \in StepSchemas
    /\ arg \in StepArrays \cup NotArrays

(***************************************************************************)
(* The validate of a component, called with a value of Python              *)
(***************************************************************************)
\* schema.validate(c) of a DimsSchema, ShapeSchema, AttrSchema or AttrsSchema
ValidateValue(schema, c) ==
    CASE TypeOf(schema) = "DimsSchema" -> DimsSchema_validate_values(schema, c)
      [] TypeOf(schema) = "ShapeSchema" -> ShapeSchema_validate_values(schema, c)
      [] TypeOf(schema) = "AttrSchema" -> AttrSchema_validate(schema, c)
      [] TypeOf(schema) = "AttrsSchema" -> AttrsSchema_validate(schema, c)

\* the dims of test_component_raises_schema_error
ExampleDimsSchemas == {DimsSchema(PyTuple(<<PyStr("foo"), PyStr("bar")>>))}

ExampleDims ==
    {<<PyStr("foo")>>, <<PyStr("foo"), PyStr("baz")>>, <<PyStr("foo"), PyStr("bar")>>}

InitComponentValidate ==
    /\ op = "component.validate"
    /\ \/ /\ self \in DimsSchemas
          /\ arg \in SeqsUpTo(DimNames, MaxDims)
       \/ /\ self \in ExampleDimsSchemas
          /\ arg \in ExampleDims
       \/ /\ self \in ShapeSchemas
          /\ arg \in SeqsUpTo(Sizes, MaxDims)
       \/ /\ self \in AttrSchemas
          /\ arg \in AttrValues
       \/ /\ self \in AttrsSchemas
          /\ arg \in AttrsValues

(***************************************************************************)
(* DatasetSchema.validate, statement by statement                          *)
(***************************************************************************)
\* one call of the validate of a member's DataArraySchema
MemberCall(key, out) == [what |-> "member", key |-> key, out |-> out]

\* self.data_vars.items() with the members taken last to first
data_vars_items_Reversed(schema) ==
    [i \in 1..Len(schema.data_vars.entries) |->
        schema.data_vars.entries[Len(schema.data_vars.entries) + 1 - i]]

\* self.data_vars.items(): the members in the order of their declaration
data_vars_items(schema) == schema.data_vars.entries

\* a member schema with the facets named
VarSchema(facets) == DataArraySchema(KwargsOf(facets, None)).val

StepDataVars ==
    {None, PyDict(<<>>),
     PyDict(<<[k |-> "foo", v |-> VarSchema({"dtype", "dims"})]>>),
     PyDict(<<[k |-> "foo", v |-> VarSchema({"dtype", "dims"})],
              [k |-> "bar", v |-> VarSchema({"dtype", "dims"})]>>),
     PyDict(<<[k |-> "bar", v |-> VarSchema({"dtype", "dims"})],
              [k |-> "foo", v |-> VarSchema({"dtype", "dims"})]>>),
     PyDict(<<[k |-> "foo", v |-> VarSchema({"dtype", "dims"})],
              [k |-> "bar", v |-> VarSchema({"name"})]>>),
     PyDict(<<[k |-> "foo", v |-> VarSchema({})],
              [k |-> "bar", v |-> VarSchema({"dtype", "dims"})]>>)}

StepDatasetSchemas ==
    {DatasetSchema(v, None, a, ch).val :
        v \in StepDataVars,
        a \in {None, FacetValue.attrs},
        ch \in {None, PyList(<<>>), PyList(<<Function("check_foo")>>),
                PyList(<<Function("check_bar"), Function("check_foo")>>),
                PyList(<<PyInt(2)>>), PyList(<<Function("check_bar"), PyInt(2)>>)}}

\* the variable of a dataset: it is named by its key
MemberArray(key, d) ==
    DataArray(NpDtype(d), PyStr(key), <<"x">>, <<2>>, PyDict(<<>>), None, PyDict(<<>>),
              Array("numpy.ndarray"))

\* datasets that have foo or not, and bar or not, with one dtype or the other
StepDatasets ==
    {Dataset(PyDict(f \o b), a) :
        f \in {<<>>} \cup {<<[k |-> "foo", v |-> MemberArray("foo", d)]>> : d \in {"<i4", "<f4"}},
        b \in {<<>>} \cup {<<[k |-> "bar", v |-> MemberArray("bar", d)]>> : d \in {"<i4", "<f4"}},
        a \in {PyDict(<<>>), PyDict(<<[k |-> "foo", v |-> PyStr("bar")]>>)}}

InitDatasetValidate ==
    /\ op = "DatasetSchema.validate"
    /\ self \in StepDatasetSchemas
    /\ arg \in StepDatasets

(***************************************************************************)
(* The construction of a DatasetSchema                                     *)
(***************************************************************************)
\* the data_vars a DatasetSchema is built with: None, dicts of
\* DataArraySchemas, of keyword dicts and of None, and a value that is no dict
BuildDataVars ==
    {None, PyDict(<<>>), PyList(<<>>),
     PyDict(<<[k |-> "foo", v |-> None]>>),
     PyDict(<<[k |-> "foo", v |-> VarSchema({"dtype", "dims"})], [k |-> "bar", v |-> None]>>),
     PyDict(<<[k |-> "foo", v |-> None], [k |-> "bar", v |-> VarSchema({"name"})]>>),
     PyDict(<<[k |-> "foo", v |-> VarSchema({"name"})]>>),
     PyDict(<<[k |-> "foo", v |-> KwargsOf({"name", "dims"}, None)]>>),
     PyDict(<<[k |-> "foo", v |-> KwargsOf({"dtype"}, None)],
              [k |-> "bar", v |-> VarSchema({})]>>)}

InitDatasetBuild ==
    /\ op = "DatasetSchema"
    /\ self = None
    /\ arg \in BuildDataVars

(***************************************************************************)
(* One schema validated again and again                                    *)
(***************************************************************************)
\* most validate calls made on one schema
MaxCalls == 3

\* a validate that forgets the checks of a DataArraySchema once it ran
SchemaAfterValidate_ChecksCleared(schema, c) ==
    IF TypeOf(schema) = "DataArraySchema" THEN [schema EXCEPT !.checks = <<>>] ELSE schema

\* the schema after schema.validate(c): no validate assigns to an attribute
\* of self or changes a value self holds
SchemaAfterValidate(schema, c) == schema

\* the schemas that are validated again and again: components, a
\* DataArraySchema with checks and the DatasetSchema of test_dataset_example
\* with attrs and a check
SessionSchemas ==
    {NameSchema(PyStr("foo")),
     AttrSchema(None, PyStr("bar")),
     AttrsSchema(FacetValue.attrs, PyBool(TRUE), PyBool(FALSE)),
     AttrsSchema(FacetValue.attrs, PyBool(FALSE), PyBool(TRUE)),
     DataArraySchema(KwargsOf({"dtype", "dims"}, None)).val,
     DataArraySchema(WithChecks(KwargsOf({"dtype"}, None),
                                PyList(<<Function("check_foo")>>))).val,
     DatasetSchema(PyDict(<<[k |-> "foo", v |-> VarSchema({"dtype", "dims"})],
                            [k |-> "bar", v |-> VarSchema({"dims"})]>>),
                   None, None, None).val,
     DatasetSchema(PyDict(<<[k |-> "bar", v |-> VarSchema({"dtype"})]>>),
                   None, FacetValue.attrs, PyList(<<Function("check_foo")>>)).val}

\* what the schema is validated on
SessionArgs(schema) ==
    CASE TypeOf(schema) = "NameSchema" -> {PyStr("foo"), PyStr("x"), None}
      [] TypeOf(schema) = "AttrSchema" -> AttrValues
      [] TypeOf(schema) = "AttrsSchema" ->
             {PyDict(<<>>), PyDict(<<[k |-> "foo", v |-> PyStr("bar")]>>),
              PyDict(<<[k |-> "foo", v |-> PyInt(1)], [k |-> "other", v |-> PyStr("bar")]>>)}
      [] TypeOf(schema) = "DataArraySchema" ->
             {MemberArray("foo", "<i4"), MemberArray("foo", "<f4"),
              MemberArray("bar", "<i4"), PyStr("foo")}
      [] TypeOf(schema) = "DatasetSchema" ->
             {Dataset(PyDict(<<[k |-> "foo", v |-> MemberArray("foo", d)],
                               [k |-> "bar", v |-> MemberArray("bar", "<i4")]>>),
                      PyDict(<<[k |-> "foo", v |-> PyStr("bar")]>>)) : d \in {"<i4", "<f4"}}
             \cup {Dataset(PyDict(<<[k |-> "bar", v |-> MemberArray("bar", "<i4")]>>),
                           PyDict(<<[k |-> "foo", v |-> PyStr("bar")]>>))}

\* arg keeps the schema as it was built
InitSession ==
    /\ op = "session"
    /\ self \in SessionSchemas
    /\ arg = self

(***************************************************************************)
(* Assignments to the facets of a DataArraySchema                          *)
(***************************************************************************)
\* most assignments made to one schema
MaxAssigns == 2

\* the class of the component of each facet
FacetClass ==
    [dtype |-> "DTypeSchema", dims |-> "DimsSchema", shape |-> "ShapeSchema",
     name |-> "NameSchema", chunks |-> "ChunksSchema", array_type |-> "ArrayTypeSchema",
     attrs |-> "AttrsSchema", coords |-> "CoordsSchema"]

\* the raw values assigned to a facet
RawValues(slot) ==
    CASE slot = "coords" ->
           {PyDict(<<[k |-> "x", v |-> DataArraySchema(
                       PyDict(<<[k |-> "name", v |-> PyStr("x")]>>)).val]>>)}
      [] slot = "dtype" -> {FacetValue.dtype, NpKind("integer"), PyStr("bogus")}
      [] slot = "chunks" -> {FacetValue.chunks, PyInt(2)}
      [] OTHER -> {FacetValue[slot]}

\* the values assigned to a facet: None, raw values and built components
AssignValues(slot) ==
    {None} \cup RawValues(slot)
    \cup {SetFacet(slot, v).val : v \in {w \in RawValues(slot) : SetFacet(slot, w).exc = "none"}}

InitAssign ==
    /\ op = "setattr"
    /\ self \in {DataArraySchema(PyDict(<<>>)).val,
                 DataArraySchema(KwargsOf(DOMAIN FacetValue, None)).val}
    /\ arg = None

(***************************************************************************)
(* Construction of a DataArraySchema with checks, and from_json calls      *)
(***************************************************************************)
\* the checks a schema is built with: callables, and lists with an entry
\* that cannot be called
BuildChecks ==
    {None, PyList(<<>>), PyList(<<Function("check_foo")>>),
     PyList(<<PyInt(2)>>), PyList(<<Function("check_foo"), PyInt(2)>>),
     PyList(<<PyStr("check_foo"), Function("check_bar")>>)}

InitDataArrayBuild ==
    /\ op = "DataArraySchema"
    /\ self = None
    /\ arg \in {WithChecks(KwargsOf(f, None), ch) :
                  f \in {{}, {"name"}, {"dtype", "chunks"}}, ch \in BuildChecks}

\* most from_json calls made on one document
MaxLoads == 2

\* the document after CoordsSchema.from_json(obj): obj.pop('coords', {}) is
\* the first statement, so the key is gone whatever happens next
CoordsSchema_from_json_doc(obj) ==
    IF TypeOf(obj) # "dict" THEN obj ELSE WithoutKey(obj, "coords")

\* whether DataArraySchema.from_json(obj) gets as far as obj['coords']: the
\* from_json of no slot before it raises
ReachesCoords(obj, i) ==
    \A j \in 1..(i - 1) :
        from_json_slots[j] \in Keys(obj) =>
            FacetFromJson(from_json_slots[j], KwGet(obj, from_json_slots[j])).exc = "none"

\* the document after DataArraySchema.from_json(obj): CoordsSchema.from_json
\* is given the object obj['coords'] itself
DataArraySchema_from_json_doc(obj) ==
    IF TypeOf(obj) # "dict" \/ "coords" \notin Keys(obj) \/ ~ReachesCoords(obj, 5)
    THEN obj
    ELSE PyDict([i \in 1..Len(obj.entries) |->
                    IF obj.entries[i].k = "coords"
                    THEN [k |-> "coords", v |-> CoordsSchema_from_json_doc(obj.entries[i].v)]
                    ELSE obj.entries[i]])

\* the document obj after cls.from_json(obj)
DocAfterFromJson(cls, obj) ==
    CASE cls = "CoordsSchema" -> CoordsSchema_from_json_doc(obj)
      [] cls = "DataArraySchema" -> DataArraySchema_from_json_doc(obj)
      [] OTHER -> obj

\* the names ArrayTypeSchema.from_json is given
ArrayTypeNames ==
    {PyStr("<class 'dask.array.core.Array'>"), PyStr("<class 'numpy.ndarray'>"),
     PyStr("foo.array"), PyStr("<class 'sparse.COO'>"), PyStr("numpy.ndarray"),
     PyStr(""), None}

\* the documents of CoordsSchemas and of DataArraySchemas with coords or not
CoordsDocs == {Json(c).val : c \in CoordsSchemas}

DataArrayDocs == {Json(c).val : c \in {x \in OneFacetSchemas : Json(x).exc = "none"}}

\* self is the class whose from_json is called, arg the document
InitFromJson ==
    /\ op = "from_json"
    /\ \/ /\ self = PyType("ArrayTypeSchema")
          /\ arg \in ArrayTypeNames
       \/ /\ self = PyType("CoordsSchema")
          /\ arg \in CoordsDocs
       \/ /\ self = PyType("DataArraySchema")
          /\ arg \in DataArrayDocs

(***************************************************************************)
(* The state machine                                                       *)
(***************************************************************************)
Init ==
    /\ pc = "call"
    /\ ret = None
    /\ step = 0
    /\ calls = <<>>
    /\ hist = <<>>
    /\ \/ InitChunks
       \/ InitRoundTrip
       \/ InitValidateBoth
       \/ InitDataArrayValidate
       \/ InitComponentValidate
       \/ InitDatasetValidate
       \/ InitDatasetBuild
       \/ InitSession
       \/ InitAssign
       \/ InitDataArrayBuild
       \/ InitFromJson

ChunksValidate ==
    /\ pc = "call"
    /\ op = "ChunksSchema.validate"
    /\ ret' = ChunksSchema_validate(self, arg.chunks, arg.dims, arg.shape)
    /\ pc' = "done"
    /\ UNCHANGED <<op, self, arg, step, calls, hist>>

RoundTrip ==
    /\ pc = "call"
    /\ op = "roundtrip"
    /\ ret' = RoundTripOf(self)
    /\ pc' = "done"
    /\ UNCHANGED <<op, self, arg, step, calls, hist>>

ValidateBoth ==
    /\ pc = "call"
    /\ op = "validate_both"
    /\ ret' = ValidateBothOf(self, arg)
    /\ pc' = "done"
    /\ UNCHANGED <<op, self, arg, step, calls, hist>>

\* DataArraySchema.validate: the isinstance test at its head
DataArrayValidateEnter ==
    /\ pc = "call"
    /\ op = "DataArraySchema.validate"
    /\ IF TypeOf(arg) # "DataArray"
       THEN ret' = NotDataArrayError /\ pc' = "done" /\ step' = step
       ELSE ret' = ret /\ pc' = "facets" /\ step' = 1
    /\ UNCHANGED <<op, self, arg, calls, hist>>

\* DataArraySchema.validate: the statement of one facet, which calls the
\* validate of the facet unless the facet is passed over; an exception of
\* that call ends validate
DataArrayValidateFacet ==
    /\ pc = "facets"
    /\ op = "DataArraySchema.validate"
    /\ IF FacetSkipped(self, validate_slots[step])
       THEN /\ calls' = calls
            /\ ret' = ret
            /\ pc' = IF step = Len(validate_slots) THEN "checks" ELSE "facets"
            /\ step' = IF step = Len(validate_slots) THEN 1 ELSE step + 1
       ELSE LET r == ValidateFacet(self, validate_slots[step], arg)
            IN  /\ calls' = Append(calls, FacetCall(validate_slots[step], r))
                /\ IF r.exc # "none"
                   THEN ret' = r /\ pc' = "done" /\ step' = step
                   ELSE /\ ret' = ret
                        /\ pc' = IF step = Len(validate_slots) THEN "checks" ELSE "facets"
                        /\ step' = IF step = Len(validate_slots) THEN 1 ELSE step + 1
    /\ UNCHANGED <<op, self, arg, hist>>

\* DataArraySchema.validate: one turn of the loop over self.checks
DataArrayValidateCheck ==
    /\ pc = "checks"
    /\ op = "DataArraySchema.validate"
    /\ IF step > Len(self.checks)
       THEN ret' = Return /\ pc' = "done" /\ step' = step /\ calls' = calls
       ELSE LET r == CallCheck(self.checks[step], arg)
            IN  /\ calls' = Append(calls, CheckCall(self.checks[step], arg, r))
                /\ IF r.exc # "none"
                   THEN ret' = r /\ pc' = "done" /\ step' = step
                   ELSE ret' = ret /\ pc' = "checks" /\ step' = step + 1
    /\ UNCHANGED <<op, self, arg, hist>>

ComponentValidate ==
    /\ pc = "call"
    /\ op = "component.validate"
    /\ ret' = ValidateValue(self, arg)
    /\ pc' = "done"
    /\ UNCHANGED <<op, self, arg, step, calls, hist>>

\* DatasetSchema.validate: the test of self.data_vars at its head
DatasetValidateEnter ==
    /\ pc = "call"
    /\ op = "DatasetSchema.validate"
    /\ pc' = IF self.data_vars # None THEN "members" ELSE "attrs"
    /\ step' = 1
    /\ UNCHANGED <<op, self, arg, ret, calls, hist>>

\* DatasetSchema.validate: one turn of the loop over self.data_vars.items()
DatasetValidateMember ==
    /\ pc = "members"
    /\ op = "DatasetSchema.validate"
    /\ IF step > Len(data_vars_items(self))
       THEN ret' = ret /\ pc' = "attrs" /\ step' = 1 /\ calls' = calls
       ELSE IF data_vars_items(self)[step].v = None
       THEN ret' = ret /\ pc' = "members" /\ step' = step + 1 /\ calls' = calls
       ELSE IF data_vars_items(self)[step].k \notin Keys(arg.data_vars)
       THEN /\ ret' = Raise("SchemaError", [text |-> "data variable not in ds",
                                            key |-> data_vars_items(self)[step].k])
            /\ pc' = "done" /\ step' = step /\ calls' = calls
       ELSE LET r == DataArraySchema_validate(
                         data_vars_items(self)[step].v,
                         KwGet(arg.data_vars, data_vars_items(self)[step].k))
            IN  /\ calls' = Append(calls, MemberCall(data_vars_items(self)[step].k, r))
                /\ IF r.exc # "none"
                   THEN ret' = r /\ pc' = "done" /\ step' = step
                   ELSE ret' = ret /\ pc' = "members" /\ step' = step + 1
    /\ UNCHANGED <<op, self, arg, hist>>

\* DatasetSchema.validate: the statements of self.coords and self.attrs
DatasetValidateAttrs ==
    /\ pc = "attrs"
    /\ op = "DatasetSchema.validate"
    /\ IF self.coords # None
       THEN /\ ret' = Raise("NotImplementedError",
                            [text |-> "coords schema not implemented yet"])
            /\ pc' = "done" /\ calls' = calls
       ELSE IF ~Truthy(self.attrs)
       THEN ret' = ret /\ pc' = "dschecks" /\ calls' = calls
       ELSE LET r == AttrsSchema_validate(self.attrs, arg.attrs)
            IN  /\ calls' = Append(calls, FacetCall("attrs", r))
                /\ IF r.exc # "none"
                   THEN ret' = r /\ pc' = "done"
                   ELSE ret' = ret /\ pc' = "dschecks"
    /\ step' = 1
    /\ UNCHANGED <<op, self, arg, hist>>

\* DatasetSchema.validate: one turn of the loop over self.checks
DatasetValidateCheck ==
    /\ pc = "dschecks"
    /\ op = "DatasetSchema.validate"
    /\ IF ~Truthy(self.checks) \/ step > Len(self.checks.items)
       THEN ret' = Return /\ pc' = "done" /\ step' = step /\ calls' = calls
       ELSE LET r == CallCheck(self.checks.items[step], arg)
            IN  /\ calls' = Append(calls, CheckCall(self.checks.items[step], arg, r))
                /\ IF r.exc # "none"
                   THEN ret' = r /\ pc' = "done" /\ step' = step
                   ELSE ret' = ret /\ pc' = "dschecks" /\ step' = step + 1
    /\ UNCHANGED <<op, self, arg, hist>>

\* DatasetSchema(data_vars): __init__ with the setter of data_vars
DatasetBuild ==
    /\ pc = "call"
    /\ op = "DatasetSchema"
    /\ ret' = DatasetSchema(arg, None, None, None)
    /\ pc' = "done"
    /\ UNCHANGED <<op, self, arg, step, calls, hist>>

\* one more schema.validate(c) on the same schema, its outcome caught
SessionValidate ==
    /\ pc = "call"
    /\ op = "session"
    /\ Len(hist) < MaxCalls
    /\ \E c \in SessionArgs(self) :
          /\ ret' = Validate(self, c)
          /\ hist' = Append(hist, [c |-> c, ret |-> Validate(self, c)])
          /\ self' = SchemaAfterValidate(self, c)
    /\ UNCHANGED <<pc, op, arg, step, calls>>

\* schema.<slot> = value: the setter of the facet; when it raises the facet
\* keeps its value.  arg keeps the assignment and its outcome.
FacetAssign ==
    /\ pc = "call"
    /\ op = "setattr"
    /\ step < MaxAssigns
    /\ \E slot \in DOMAIN FacetClass : \E value \in AssignValues(slot) :
          /\ arg' = [slot |-> slot, value |-> value, out |-> SetFacet(slot, value)]
          /\ self' = IF SetFacet(slot, value).exc # "none" THEN self
                     ELSE [self EXCEPT ![slot] = SetFacet(slot, value).val]
          /\ ret' = IF SetFacet(slot, value).exc # "none"
                    THEN SetFacet(slot, value) ELSE Return
    /\ step' = step + 1
    /\ UNCHANGED <<pc, op, calls, hist>>

\* DataArraySchema(**kwargs): __init__ with the setters of the facets and of
\* checks
DataArrayBuild ==
    /\ pc = "call"
    /\ op = "DataArraySchema"
    /\ ret' = DataArraySchema(arg)
    /\ pc' = "done"
    /\ UNCHANGED <<op, self, arg, step, calls, hist>>

\* cls.from_json(doc) on the document as the calls before left it; hist keeps
\* the document each call was given and its outcome
FromJsonCall ==
    /\ pc = "call"
    /\ op = "from_json"
    /\ step < MaxLoads
    /\ ret' = FromJson(self.name, arg)
    /\ arg' = DocAfterFromJson(self.name, arg)
    /\ hist' = Append(hist, [doc |-> arg, ret |-> FromJson(self.name, arg)])
    /\ step' = step + 1
    /\ UNCHANGED <<pc, op, self, calls>>

Next ==
    \/ ChunksValidate
    \/ RoundTrip
    \/ ValidateBoth
    \/ DataArrayValidateEnter
    \/ DataArrayValidateFacet
    \/ DataArrayValidateCheck
    \/ ComponentValidate
    \/ DatasetValidateEnter
    \/ DatasetValidateMember
    \/ DatasetValidateAttrs
    \/ DatasetValidateCheck
    \/ DatasetBuild
    \/ SessionValidate
    \/ FacetAssign
    \/ DataArrayBuild
    \/ FromJsonCall

Spec == Init /\ [][Next]_vars

(***************************************************************************)
(* Properties of ChunksSchema.validate                                     *)
(***************************************************************************)
ChunksDone == pc = "done" /\ op = "ChunksSchema.validate"

\* a finished call with a dict expectation on a chunked array
ChunksDictDone ==
    /\ ChunksDone
    /\ self.chunks.t = "dict"
    /\ arg.chunks.t = "chunks"

Entries == self.chunks.entries

\* dimension d is one of the array's dims and has a block sequence
HasAxis(d) ==
    \E i \in 1..Len(arg.dims) : arg.dims[i] = d /\ i <= Len(arg.chunks.axes)

AxisIndex(d) == CHOOSE i \in 1..Len(arg.dims) : arg.dims[i] = d

AxisBlocks(d) == arg.chunks.axes[AxisIndex(d)]

AxisExtent(d) == arg.shape[AxisIndex(d)]

\* every block except the last equals n and the last block is <= n
RaggedTailOk(ac, n) ==
    /\ \A i \in 1..(Len(ac) - 1) : ac[i] = n
    /\ ac[Len(ac)] <= n

\* what the documentation asks of dimension d for the expected chunks e
EntryOk(d, e) ==
    /\ HasAxis(d)
    /\ CASE e.t = "none" -> TRUE
         [] e.t = "int" ->
              RaggedTailOk(AxisBlocks(d), IF e.i < 0 THEN AxisExtent(d) ELSE e.i)
         [] OTHER -> AxisBlocks(d) = e.items

\* entry i is reached: the entries before it passed
Reached(i) == \A j \in 1..(i - 1) : EntryOk(Entries[j].k, Entries[j].v)

\* the call went on after entry i: it returned, or a later entry ended it
\* (with a SchemaError, or with the KeyError of a dimension the array lacks)
WentOnAfter(i) ==
    \/ ret = Return
    \/ /\ ret.exc \in {"SchemaError", "KeyError"}
       /\ \E j \in (i + 1)..Len(Entries) : ret.msg.key = Entries[j].k

\* C1: for a dimension d whose expected chunks are an integer n >= 0, the
\* validation of d passes if and only if every block of d except the last
\* equals n and the last block is <= n; otherwise SchemaError is raised and
\* names d, the actual block sequence and n.
C1_IntegerRule ==
    ChunksDictDone =>
        \A i \in 1..Len(Entries) :
            LET d == Entries[i].k
                e == Entries[i].v
            IN  (e.t = "int" /\ e.i >= 0 /\ HasAxis(d) /\ Reached(i)) =>
                    IF RaggedTailOk(AxisBlocks(d), e.i)
                    THEN WentOnAfter(i)
                    ELSE ret = Raise("SchemaError",
                                     [text |-> "chunks did not match", key |-> d,
                                      ac |-> AxisBlocks(d), ec |-> PyInt(e.i)])

\* {x: 2} on blocks (2, 2, 1) has returned
C1_Witness ==
    /\ ChunksDictDone
    /\ Entries = <<[k |-> "x", v |-> PyInt(2)]>>
    /\ arg.chunks.axes = << <<2, 2, 1>> >>
    /\ ret = Return

\* C2: for a dimension d whose expected chunks are any negative integer, the
\* expected size is the extent of d in the array's shape; the integer rule is
\* applied with that size and the error message reports that size.
C2_NegativeIsFullExtent ==
    ChunksDictDone =>
        \A i \in 1..Len(Entries) :
            LET d == Entries[i].k
                e == Entries[i].v
            IN  (e.t = "int" /\ e.i < 0 /\ HasAxis(d) /\ Reached(i)) =>
                    IF RaggedTailOk(AxisBlocks(d), AxisExtent(d))
                    THEN WentOnAfter(i)
                    ELSE ret = Raise("SchemaError",
                                     [text |-> "chunks did not match", key |-> d,
                                      ac |-> AxisBlocks(d),
                                      ec |-> PyInt(AxisExtent(d))])

\* {x: 2, y: -1} over shape (4, 10) with y blocks (5, 5) was rejected, and the
\* message reports the size 10
C2_Witness ==
    /\ ChunksDictDone
    /\ Entries = <<[k |-> "x", v |-> PyInt(2)], [k |-> "y", v |-> PyInt(-1)]>>
    /\ arg.shape = <<4, 10>>
    /\ arg.chunks.axes = << <<2, 2>>, <<5, 5>> >>
    /\ ret.exc = "SchemaError"
    /\ ret.msg.ec = PyInt(10)

\* a finished call of {x: -1} on an axis x of total size 4
MinusOneOnFour ==
    /\ ChunksDictDone
    /\ Entries = <<[k |-> "x", v |-> PyInt(-1)]>>
    /\ arg.dims = <<"x">>
    /\ arg.shape = <<4>>

\* C3 as stated: with {x: -1} on an axis of size 4, the blocks (4,) pass,
\* the blocks (1, 2, 1) pass and the blocks (2, 3, 2) are rejected.
C3_Original ==
    MinusOneOnFour =>
        /\ arg.chunks.axes = << <<4>> >> => ret = Return
        /\ arg.chunks.axes = << <<1, 2, 1>> >> => ret = Return
        /\ arg.chunks.axes = << <<2, 3, 2>> >> => ret.exc = "SchemaError"

\* C3 amended: with {x: -1} on an axis of size 4, the blocks (4,) pass, and
\* the blocks (1, 2, 1) and (2, 3, 2) are both rejected with SchemaError.
C3_MinusOneExamples ==
    MinusOneOnFour =>
        /\ arg.chunks.axes = << <<4>> >> => ret = Return
        /\ arg.chunks.axes = << <<1, 2, 1>> >> => ret.exc = "SchemaError"
        /\ arg.chunks.axes = << <<2, 3, 2>> >> => ret.exc = "SchemaError"

\* {x: -1} on blocks (1, 2, 1) of an axis of size 4 was rejected
C3_Witness ==
    /\ MinusOneOnFour
    /\ arg.chunks.axes = << <<1, 2, 1>> >>
    /\ ret.exc = "SchemaError"

\* a finished call of {x: 2} on an array with the one axis x
TwoOnX ==
    /\ ChunksDictDone
    /\ Entries = <<[k |-> "x", v |-> PyInt(2)]>>
    /\ arg.dims = <<"x">>

\* C4 as stated: with {x: 2}, the blocks (2, 2) over extent 4 pass and the
\* blocks (2, 1) are rejected with a SchemaError whose message holds (2, 1).
C4_Original ==
    TwoOnX =>
        /\ (arg.chunks.axes = << <<2, 2>> >> /\ arg.shape = <<4>>) => ret = Return
        /\ arg.chunks.axes = << <<2, 1>> >> =>
               (ret.exc = "SchemaError" /\ ret.msg.ac = <<2, 1>>)

\* C4 amended: with {x: 2}, the blocks (2, 2) over extent 4 pass and the
\* blocks (2, 1) pass as well (a smaller last block is tolerated); the blocks
\* (1, 2) are rejected with a SchemaError whose message holds (1, 2).
C4_TwoExamples ==
    TwoOnX =>
        /\ (arg.chunks.axes = << <<2, 2>> >> /\ arg.shape = <<4>>) => ret = Return
        /\ arg.chunks.axes = << <<2, 1>> >> => ret = Return
        /\ arg.chunks.axes = << <<1, 2>> >> =>
               (ret.exc = "SchemaError" /\ ret.msg.ac = <<1, 2>>)

\* {x: 2} on blocks (2, 1) has returned
C4_Witness ==
    /\ TwoOnX
    /\ arg.chunks.axes = << <<2, 1>> >>
    /\ ret = Return

\* C5: for a dimension d whose expected chunks are a sequence s, the validation
\* of d passes if and only if the actual blocks of d equal s element for
\* element, whether s is a list or a tuple; None accepts any blocks; a
\* mismatch raises SchemaError; a call whose declared dimensions all pass
\* returns, whatever the blocks of the undeclared dimensions are.
C5_SequenceRule ==
    ChunksDictDone =>
        /\ \A i \in 1..Len(Entries) :
              LET d == Entries[i].k
                  e == Entries[i].v
              IN  (e.t \in {"list", "tuple", "none"} /\ HasAxis(d) /\ Reached(i)) =>
                      IF e.t = "none" \/ AxisBlocks(d) = e.items
                      THEN WentOnAfter(i)
                      ELSE ret = Raise("SchemaError",
                                       [text |-> "chunks did not match", key |-> d,
                                        ac |-> AxisBlocks(d), ec |-> e])
        /\ (\A i \in 1..Len(Entries) : EntryOk(Entries[i].k, Entries[i].v))
               => ret = Return

\* {y: [10]} on an array with axes x and y whose y blocks are (10,) has
\* returned: the list equals the tuple and x is not constrained
C5_Witness ==
    /\ ChunksDictDone
    /\ Entries = <<[k |-> "y", v |-> PyList(<<10>>)]>>
    /\ arg.dims = <<"x", "y">>
    /\ arg.chunks.axes[2] = <<10>>
    /\ arg.chunks.axes[1] = <<2, 1>>
    /\ ret = Return

\* C6: with a boolean expectation, True raises SchemaError exactly when the
\* actual chunks are None, and False raises SchemaError exactly when the
\* actual chunks are not None, whatever dims and shape are.
C6_BooleanExpectation ==
    (ChunksDone /\ self.chunks.t = "bool") =>
        IF self.chunks.b
        THEN /\ ret.exc = "SchemaError" <=> arg.chunks = None
             /\ ret.exc = "none" <=> arg.chunks # None
        ELSE /\ ret.exc = "SchemaError" <=> arg.chunks # None
             /\ ret.exc = "none" <=> arg.chunks = None

(***************************************************************************)
(* Properties of serialization                                             *)
(***************************************************************************)
RoundTripDone == pc = "done" /\ op = "roundtrip"

\* from_json(self.json) succeeded and its json equals self.json
RoundTripHolds ==
    /\ ret.json.exc = "none"
    /\ ret.rt.exc = "none"
    /\ ret.rtjson.exc = "none"
    /\ PyEq(ret.rtjson.val, ret.json.val)

ComponentClasses ==
    {"DTypeSchema", "DimsSchema", "ShapeSchema", "NameSchema", "ArrayTypeSchema",
     "ChunksSchema", "AttrSchema", "AttrsSchema"}

\* the backend classes from_json knows by name
InRegistry(schema) ==
    TypeOf(schema) = "ArrayTypeSchema" =>
        ArrayTypeSchema_from_json(ArrayTypeSchema_json(schema)).exc = "none"

\* C7: for every instance s of a component schema (a backend schema being one
\* of a class that from_json knows), from_json(s.json) succeeds and its json
\* equals s.json.
C7_ComponentRoundTrip ==
    (RoundTripDone /\ TypeOf(self) \in ComponentClasses /\ InRegistry(self))
        => RoundTripHolds

\* C8: for every DataArraySchema s, with any combination of facets and with
\* coords whose member schemas carry facets of their own,
\* DataArraySchema.from_json(s.json) is a DataArraySchema whose json equals
\* s.json.
C8_DataArrayRoundTrip ==
    (RoundTripDone /\ TypeOf(self) = "DataArraySchema") =>
        (RoundTripHolds /\ TypeOf(ret.rt.val) = "DataArraySchema")

\* C9: for every DatasetSchema s, with no facets, with data_vars only or with
\* attrs, DatasetSchema.from_json(s.json) succeeds and returns a
\* DatasetSchema whose json equals s.json.
C9_DatasetRoundTrip ==
    (RoundTripDone /\ TypeOf(self) = "DatasetSchema") =>
        (RoundTripHolds /\ TypeOf(ret.rt.val) = "DatasetSchema")

\* C10: for every schema s (a backend schema being one of a class that
\* from_json knows) and every object c on which s.validate(c) returns or
\* raises SchemaError, from_json(s.json).validate(c) has the same outcome.
C10_SerializationKeepsValidate ==
    (/\ pc = "done"
     /\ op = "validate_both"
     /\ InRegistry(self)
     /\ ret.direct.exc \in {"none", "SchemaError"}) => ret.via.exc = ret.direct.exc

(***************************************************************************)
(* Properties of DataArraySchema.validate                                  *)
(***************************************************************************)
DataArrayValidating == op = "DataArraySchema.validate" /\ TypeOf(arg) = "DataArray"

DataArrayValidated == DataArrayValidating /\ pc = "done"

\* the facets in the order the documentation gives for validate
FacetsInOrder == <<"dtype", "name", "dims", "shape", "coords", "chunks", "attrs", "array_type">>

\* those of them the schema has, in that order
Configured == SelectSeq(FacetsInOrder, LAMBDA slot : self[slot] # None)

\* the positions in Configured of the facets the array breaks
Violated == {i \in 1..Len(Configured) : ValidateFacet(self, Configured[i], arg).exc # "none"}

FirstViolated == CHOOSE i \in Violated : \A j \in Violated : i <= j

\* the calls of facet validators among the calls validate made
FacetCalls == SelectSeq(calls, LAMBDA c : c.what # "check")

\* C11: DataArraySchema.validate calls the validators of the facets that are
\* not None in the order dtype, name, dims, shape, coords, chunks, attrs,
\* array_type, makes no call after one that raised, and when the array
\* breaks several facets it ends with the exception of the first of them,
\* having called no later validator and no check.
C11_FailFastInFacetOrder ==
    DataArrayValidating =>
        /\ \A i \in 1..(Len(calls) - 1) : calls[i].out.exc = "none"
        /\ Len(FacetCalls) <= Len(Configured)
        /\ \A i \in 1..Len(FacetCalls) :
              /\ FacetCalls[i].what = Configured[i]
              /\ FacetCalls[i].out = ValidateFacet(self, Configured[i], arg)
        /\ (pc = "done" /\ Violated # {}) =>
              /\ ret = ValidateFacet(self, Configured[FirstViolated], arg)
              /\ Len(calls) = FirstViolated
              /\ calls[FirstViolated].what = Configured[FirstViolated]
        /\ (pc = "done" /\ Violated = {}) => Len(FacetCalls) = Len(Configured)

\* an array that breaks several facets of a schema that lacks others and has
\* checks, the first broken facet not being the first the schema has
C11_Witness ==
    /\ DataArrayValidated
    /\ Cardinality(Violated) >= 2
    /\ FirstViolated > 1
    /\ Len(Configured) < Len(FacetsInOrder)
    /\ Len(self.checks) > 0
    /\ ret.exc = "SchemaError"

\* the calls of checks among the calls validate made
CheckCalls == SelectSeq(calls, LAMBDA c : c.what = "check")

\* the positions in self.checks of the checks that raise on the array
Failing == {i \in 1..Len(self.checks) : CallCheck(self.checks[i], arg).exc # "none"}

FirstFailing == CHOOSE i \in Failing : \A j \in Failing : i <= j

\* C12: DataArraySchema.validate calls a check only after the validators of
\* all the facets that are not None were called and returned; it calls the
\* checks in the order of self.checks, each with the array validate was
\* given; the first check that raises ends validate with the exception of
\* that check itself, and no later check is called.
C12_ChecksAfterFacetsInOrder ==
    DataArrayValidating =>
        /\ \A i \in 1..Len(calls) : \A j \in 1..Len(calls) :
              (i < j /\ calls[i].what = "check") => calls[j].what = "check"
        /\ CheckCalls # <<>> =>
              /\ Len(FacetCalls) = Len(Configured)
              /\ \A i \in 1..Len(FacetCalls) : FacetCalls[i].out.exc = "none"
        /\ Len(CheckCalls) <= Len(self.checks)
        /\ \A i \in 1..Len(CheckCalls) :
              /\ CheckCalls[i].f = self.checks[i]
              /\ CheckCalls[i].with = arg
              /\ i < Len(CheckCalls) => CheckCalls[i].out.exc = "none"
        /\ (pc = "done" /\ Violated = {} /\ Failing # {}) =>
              /\ Len(CheckCalls) = FirstFailing
              /\ ret = CheckCalls[FirstFailing].out
              /\ ret = Raise("AssertionError", [text |-> self.checks[FirstFailing].name])
        /\ (pc = "done" /\ Violated = {} /\ Failing = {}) =>
              /\ Len(CheckCalls) = Len(self.checks)
              /\ ret = Return

\* a schema with facets and two checks, of which the first passes and the
\* second raises
C12_Witness ==
    /\ DataArrayValidated
    /\ Len(Configured) > 0
    /\ Len(self.checks) = 2
    /\ Len(CheckCalls) = 2
    /\ CheckCalls[1].out.exc = "none"
    /\ ret.exc = "AssertionError"

NoDataArrayValidated ==
    pc = "done" /\ op = "DataArraySchema.validate" /\ TypeOf(arg) # "DataArray"

\* C13 as stated: DataArraySchema.validate on an input that is no DataArray
\* raises SchemaError, before any facet validator or check is called.
C13_Original ==
    NoDataArrayValidated => (ret.exc = "SchemaError" /\ calls = <<>>)

\* C13: DataArraySchema.validate on an input that is no DataArray raises
\* ValueError with the message 'Input must be a xarray.DataArray', before any
\* facet validator or check is called.
C13_ValueErrorForOtherInput ==
    NoDataArrayValidated =>
        /\ ret = Raise("ValueError", [text |-> "Input must be a xarray.DataArray"])
        /\ calls = <<>>

\* a Dataset given to a schema that has facets and checks
C13_Witness ==
    /\ NoDataArrayValidated
    /\ TypeOf(arg) = "Dataset"
    /\ Len(Configured) > 0
    /\ Len(self.checks) > 0

(***************************************************************************)
(* Properties of the validate of the components                            *)
(***************************************************************************)
ComponentValidated(classes) ==
    pc = "done" /\ op = "component.validate" /\ TypeOf(self) \in classes

\* the expected entries of a DimsSchema or ShapeSchema
ExpectedItems == IF TypeOf(self) = "DimsSchema" THEN self.dims.items ELSE self.shape.items

\* the positions at which neither entry is None and the two differ
BothSetAndDiffer ==
    {i \in 1..Len(arg) : ExpectedItems[i] # None /\ arg[i] # None /\ ExpectedItems[i] # arg[i]}

\* C14: DimsSchema.validate and ShapeSchema.validate raise a SchemaError for
\* the length when the expected and the actual tuple differ in length;
\* otherwise they raise a SchemaError for the lowest index at which both
\* entries are not None and differ, naming the index and both values, and
\* they return exactly when there is no such index.
C14_FirstMismatchOfSetEntries ==
    ComponentValidated({"DimsSchema", "ShapeSchema"}) =>
        IF Len(ExpectedItems) # Len(arg)
        THEN /\ ret.exc = "SchemaError"
             /\ ret.msg.text \in {"length of dims does not match",
                                  "number of dimensions in shape"}
        ELSE IF BothSetAndDiffer = {}
        THEN ret = Return
        ELSE /\ ret.exc = "SchemaError"
             /\ \A j \in BothSetAndDiffer : ret.msg.axis + 1 <= j
             /\ ret.msg.axis + 1 \in BothSetAndDiffer
             /\ ret.msg.actual = arg[ret.msg.axis + 1]
             /\ ret.msg.expected = ExpectedItems[ret.msg.axis + 1]

\* C15: AttrSchema.validate raises a SchemaError for every value that is not
\* an instance of the expected type, when one is set, and for every value
\* different from the expected value, when one is set, and returns otherwise.
C15_TypeAndValueRejected ==
    ComponentValidated({"AttrSchema"}) =>
        IF \/ self.type # None /\ ~IsInstance(arg, self.type)
           \/ self.value # None /\ self.value # arg
        THEN ret.exc = "SchemaError"
        ELSE ret = Return

\* the declared keys that the validated dict lacks, and the keys of the
\* validated dict that are not declared
MissingKeys == Keys(self.attrs) \ Keys(arg)

ExtraKeys == Keys(arg) \ Keys(self.attrs)

\* the declared keys that the validated dict has and whose value fails the
\* AttrSchema declared for it
FailingKeys ==
    {k \in Keys(self.attrs) \cap Keys(arg) :
        AttrSchema_validate(KwGet(self.attrs, k), KwGet(arg, k)) # Return}

\* C16: AttrsSchema.validate with require_all_keys raises a SchemaError that
\* lists exactly the declared keys that are missing, when there is one;
\* otherwise, without allow_extra_keys, it raises a SchemaError that lists
\* exactly the keys that are not declared, when there is one; the missing keys
\* are tested before the extra keys and both before any value is validated.
C16_KeyPolicyFirst ==
    ComponentValidated({"AttrsSchema"}) =>
        IF self.require_all_keys.b /\ MissingKeys # {}
        THEN ret = Raise("SchemaError", [text |-> "attrs has missing keys",
                                         keys |-> MissingKeys])
        ELSE IF ~self.allow_extra_keys.b /\ ExtraKeys # {}
        THEN ret = Raise("SchemaError", [text |-> "attrs has extra keys",
                                         keys |-> ExtraKeys])
        ELSE ret.exc # "none" =>
                ret.msg.text \notin {"attrs has missing keys", "attrs has extra keys"}

\* a key is missing, another is extra and a value fails: the missing key is reported
C16_Witness ==
    /\ ComponentValidated({"AttrsSchema"})
    /\ self.require_all_keys.b /\ ~self.allow_extra_keys.b
    /\ MissingKeys # {} /\ ExtraKeys # {} /\ FailingKeys # {}
    /\ ret.exc = "SchemaError" /\ ret.msg.keys = MissingKeys

\* C17: AttrsSchema.validate without require_all_keys skips a declared key
\* that the validated dict lacks: it returns exactly when every declared key
\* that is present passes its AttrSchema and the extra keys are allowed or
\* there is none.
C17_AbsentKeySkipped ==
    (ComponentValidated({"AttrsSchema"}) /\ ~self.require_all_keys.b) =>
        (ret = Return <=>
            /\ FailingKeys = {}
            /\ self.allow_extra_keys.b \/ ExtraKeys = {})

(***************************************************************************)
(* Properties of DatasetSchema.validate                                    *)
(***************************************************************************)
DatasetValidating == op = "DatasetSchema.validate" /\ pc # "call"

DatasetValidated == op = "DatasetSchema.validate" /\ pc = "done"

\* the declared members, in the order of their declaration
Declared == IF self.data_vars = None THEN <<>> ELSE self.data_vars.entries

\* what the claim has validate do for the i-th declared member
MemberOutcome(i) ==
    IF Declared[i].k \notin Keys(arg.data_vars)
    THEN Raise("SchemaError", [text |-> "data variable not in ds", key |-> Declared[i].k])
    ELSE DataArraySchema_validate(Declared[i].v, KwGet(arg.data_vars, Declared[i].k))

FailingMembers == {i \in 1..Len(Declared) : MemberOutcome(i).exc # "none"}

FirstFailingMember == CHOOSE i \in FailingMembers : \A j \in FailingMembers : i <= j

MemberCalls == SelectSeq(calls, LAMBDA c : c.what = "member")

\* C18: DatasetSchema.validate takes the declared members in the order of
\* their declaration; for a member the dataset lacks it raises a SchemaError
\* that names it, for any other it calls the validate of the member's
\* DataArraySchema on the variable; the first member that fails ends validate
\* with that outcome, and the attrs and the checks of the DatasetSchema are
\* called only after every member passed.
C18_MembersInOrderThenAttrsAndChecks ==
    DatasetValidating =>
        /\ Len(MemberCalls) <= Len(Declared)
        /\ \A i \in 1..Len(MemberCalls) :
              /\ MemberCalls[i].key = Declared[i].k
              /\ MemberCalls[i].out = MemberOutcome(i)
              /\ calls[i] = MemberCalls[i]
        /\ \A i \in 1..(Len(calls) - 1) : calls[i].out.exc = "none"
        /\ Len(calls) > Len(MemberCalls) =>
              /\ Len(MemberCalls) = Len(Declared)
              /\ FailingMembers = {}
        /\ (pc = "done" /\ FailingMembers # {}) =>
              /\ ret = MemberOutcome(FirstFailingMember)
              /\ Len(calls) = Len(MemberCalls)
              /\ Len(MemberCalls) \in {FirstFailingMember - 1, FirstFailingMember}
              /\ Declared[FirstFailingMember].k \notin Keys(arg.data_vars) =>
                    /\ ret.exc = "SchemaError"
                    /\ ret.msg.key = Declared[FirstFailingMember].k
        /\ pc = "done" => ret = DatasetSchema_validate(self, arg)

\* the first member passes, the second fails, and the attrs and a check of
\* the DatasetSchema would fail as well
C18_Witness ==
    /\ DatasetValidated
    /\ FailingMembers # {}
    /\ FirstFailingMember = 2
    /\ Truthy(self.attrs) /\ AttrsSchema_validate(self.attrs, arg.attrs).exc # "none"
    /\ Truthy(self.checks) /\ RunChecks(self.checks.items, 1, arg).exc # "none"
    /\ Len(calls) = 1
    /\ ret.exc = "SchemaError"

\* a DatasetSchema was built with a dict that has None for a member
BuiltWithNullMember ==
    /\ pc = "done" /\ op = "DatasetSchema"
    /\ TypeOf(arg) = "dict"
    /\ \E i \in 1..Len(arg.entries) : arg.entries[i].v = None

\* the members the DatasetSchema was built with None for
NullMembers == {arg.entries[i].k : i \in {j \in 1..Len(arg.entries) : arg.entries[j].v = None}}

\* C19: a DatasetSchema can be built with None for a declared member, and its
\* validate then raises a SchemaError naming the member on a dataset that
\* lacks it.
C19_NullMemberBuilds ==
    BuiltWithNullMember =>
        /\ ret.exc = "none"
        /\ \A ds \in StepDatasets :
              (NullMembers \ Keys(ds.data_vars) # {}) =>
                  /\ DatasetSchema_validate(ret.val, ds).exc = "SchemaError"
                  /\ DatasetSchema_validate(ret.val, ds).msg.key \in NullMembers

ComponentOf(slot, value) ==
    CASE slot = "dtype" -> DTypeSchema(value)
      [] slot = "dims" -> Val(DimsSchema(value))
      [] slot = "shape" -> Val(ShapeSchema(value))
      [] slot = "name" -> Val(NameSchema(value))
      [] slot = "chunks" -> Val(ChunksSchema(value))
      [] slot = "array_type" -> Val(ArrayTypeSchema(value))
      [] slot = "attrs" -> Val(AttrsSchema(value, PyBool(TRUE), PyBool(TRUE)))
      [] slot = "coords" -> Val(CoordsSchema(value, PyBool(TRUE), PyBool(TRUE)))

\* the last assignment stored a value
Assigned == op = "setattr" /\ arg # None /\ ret = Return

\* C21: after construction and after any assignments to the facets of a
\* DataArraySchema, each facet is None or an instance of the class of its
\* component; a component that is assigned is stored as it is, and a raw
\* value that is assigned gives a facet whose json is that of the component
\* built from the value.
C21_FacetsAreComponents ==
    op = "setattr" =>
        /\ \A slot \in DOMAIN FacetClass :
              self[slot] = None \/ TypeOf(self[slot]) = FacetClass[slot]
        /\ (Assigned /\ arg.value # None /\ TypeOf(arg.value) = FacetClass[arg.slot]) =>
              self[arg.slot] = arg.value
        /\ (Assigned /\ arg.value # None /\ TypeOf(arg.value) # FacetClass[arg.slot]) =>
              /\ ComponentOf(arg.slot, arg.value).exc = "none"
              /\ Json(self[arg.slot]) = Json(ComponentOf(arg.slot, arg.value).val)
        /\ (Assigned /\ arg.value = None) => self[arg.slot] = None

\* a raw value was assigned to a facet that held a component, after another
\* assignment
C21_Witness ==
    /\ Assigned
    /\ step = 2
    /\ arg.value # None
    /\ TypeOf(arg.value) # FacetClass[arg.slot]
    /\ arg.slot = "chunks"
    /\ self.chunks = ChunksSchema(PyInt(2))

(***************************************************************************)
(* Malformed schemas                                                       *)
(***************************************************************************)
\* the checks given to DataArraySchema have an entry that cannot be called
HasNonCallable(kwargs) ==
    /\ "checks" \in Keys(kwargs)
    /\ KwGet(kwargs, "checks") # None
    /\ \E i \in 1..Len(KwGet(kwargs, "checks").items) :
          TypeOf(KwGet(kwargs, "checks").items[i]) # "function"

RegisteredNames == {PyStr("<class 'dask.array.core.Array'>"), PyStr("<class 'numpy.ndarray'>")}

\* C22: a malformed schema is reported with ValueError: DataArraySchema with
\* a check that cannot be called raises ValueError when it is built;
\* ChunksSchema.validate raises ValueError for an expectation that is neither
\* a bool nor a dict, whatever the chunks of the array, None included;
\* ArrayTypeSchema.from_json raises ValueError 'unknown array_type' for every
\* name but the two it knows.
C22_MalformedIsValueError ==
    /\ (pc = "done" /\ op = "DataArraySchema" /\ HasNonCallable(arg)) =>
          ret = Raise("ValueError", [text |-> "All checks must be callables"])
    /\ (pc = "done" /\ op = "ChunksSchema.validate"
        /\ TypeOf(self.chunks) \notin {"bool", "dict"}) =>
          /\ ret.exc = "ValueError"
          /\ ret.msg.text = "got unknown chunks type"
    /\ (op = "from_json" /\ self = PyType("ArrayTypeSchema")) =>
          \A i \in 1..Len(hist) :
              IF hist[i].doc \in RegisteredNames
              THEN hist[i].ret.exc = "none"
              ELSE /\ hist[i].ret.exc = "ValueError"
                   /\ hist[i].ret.msg.text = "unknown array_type"

\* ChunksSchema(2) validated on an array that has no chunks
C22_Witness ==
    /\ pc = "done" /\ op = "ChunksSchema.validate"
    /\ self = ChunksSchema(PyInt(2))
    /\ arg.chunks = None
    /\ ret.exc = "ValueError"

\* C23: a DatasetSchema whose checks have an entry that cannot be called is
\* not built (ValueError), so the checks of a DatasetSchema that is validated
\* can all be called and validate never ends with the TypeError of calling
\* one that cannot.
C23_DatasetChecksAreCallable ==
    op = "DatasetSchema.validate" =>
        /\ Truthy(self.checks) =>
              \A i \in 1..Len(self.checks.items) : Callable(self.checks.items[i])
        /\ pc = "done" => ret.exc # "TypeError"

\* C24: ChunksSchema.validate with a bool or a dict of dimension name to
\* int, sequence or None returns or raises SchemaError, whatever the chunks,
\* dims and shape of the array: a declared name that is no dim of the array,
\* or an array with fewer chunk axes than dims, is a SchemaError too.
C24_ReturnsOrSchemaError ==
    (ChunksDone /\ TypeOf(self.chunks) \in {"bool", "dict"}) =>
        ret.exc \in {"none", "SchemaError"}

(***************************************************************************)
(* from_json and the document it is given                                  *)
(***************************************************************************)
\* C25: DataArraySchema.from_json(doc) and CoordsSchema.from_json(doc) leave
\* doc as it was, its nested coords object included, so a second from_json of
\* the same document gives a schema with the same json as the first.
C25_FromJsonKeepsDocument ==
    (op = "from_json" /\ self \in {PyType("CoordsSchema"), PyType("DataArraySchema")}) =>
        /\ \A i \in 1..Len(hist) : hist[i].doc = hist[1].doc /\ arg = hist[1].doc
        /\ \A i \in 1..Len(hist) : JsonOf(hist[i].ret) = JsonOf(hist[1].ret)

====
